---- MODULE Spec2Model ----
(***************************************************************************)
(* A model of the voice-changer-phone audio pipeline:                      *)
(*   - AudioBridge (src/src/services/audio-bridge.js): the registry of     *)
(*     bridges, the per-bridge ingress queue and its drain loop;           *)
(*   - handleClientAudioStream / handleMediaStream (src/unnamed/part_006): *)
(*     the two socket handlers that drive the bridge, and the Twilio       *)
(*     handler's own path: buffer, decode, resample, transform, resample,  *)
(*     encode, send;                                                       *)
(*   - VoiceTransformer (src/src/services/voice-transformer.js),           *)
(*     AudioBuffer (src/src/utils/audio-buffer.js) and the codec functions *)
(*     (src/unnamed/part_007).                                             *)
(*                                                                         *)
(* JavaScript is single-threaded: a handler runs to its next `await`       *)
(* without interruption.  Each action below is one such run.  The only     *)
(* await of the drain loop is `await this.forwardAudioToTwilio(...)`; the  *)
(* loop is modelled as suspended there, and any other handler may run      *)
(* before it resumes.  The awaits of the 'start' and 'stop' cases are on    *)
(* initializeStream and closeStream, async functions that never wait for   *)
(* I/O: their continuations run before any other socket event, so each of  *)
(* these cases is one action.  Twilio sends 'connected', 'start' and 'stop' *)
(* once each and in this order; the socket may close at any time.          *)
(*                                                                         *)
(* processAudioBuffer is called without await by the 'media' case.  Its    *)
(* one await is on voiceTransformer.transform: when transform returns      *)
(* before its own await (no API key, no voiceId) the continuation is a     *)
(* microtask of the same event and the whole run is one action; when       *)
(* transform calls the backend the activation stays suspended until the    *)
(* backend answers, and any other handler may run in between.              *)
(*                                                                         *)
(* A media payload is modelled as the bytes it decodes to from base64, and  *)
(* an emitted message by the bytes before they are encoded to base64.      *)
(*                                                                         *)
(* callManager is a collaborator handed to the handlers by their caller;   *)
(* its bookkeeping (addActiveStream, addClientStream, ...), the usage       *)
(* counters in seconds and the handler's latencyTracker, which only feeds  *)
(* log lines, are not part of the model.                                   *)
(***************************************************************************)
EXTENDS Integers, Sequences, FiniteSets, TLC

(***************************************************************************)
(* Bounds of the model.                                                    *)
(***************************************************************************)
CallIds == {"A", "B"}

\* chunks the client sockets deliver in total, over all calls
MaxChunks == 3

\* bridge objects createBridge allocates in total, over all calls
MaxBridges == 2

\* 'media' events the Twilio sockets deliver in total, over all calls
MaxMedia == 2

\* the stream identifier a 'start' event carries
StreamSids == {"MZ1"}

NoSid == "null"

ObjGens == 1..MaxBridges

VARIABLES
  activeBridges,  \* AudioBridge.activeBridges: callId -> generation of the registered bridge object, 0 = no entry
  heap,           \* the bridge objects ever created: heap[c][g]
  gens,           \* gens[c]: bridge objects created so far for call c
  loops,          \* loops[c][g]: processAudioQueue activations suspended at their await, holding bridge object (c, g)
  accepted,       \* accepted[c][g]: chunks pushed on the object's audioQueue, in push order
  forwarded,      \* forwarded[c][g]: calls of forwardAudioToTwilio on the object, in call order
  fwdLog,         \* fwdLog[c]: chunks of call c handed to forwardAudioToTwilio, over all its bridge objects
  client,         \* client[c]: the client audio socket of call c: "none", "open", "closed"
  sent,           \* chunks the client sockets have delivered so far; chunk n is the n-th delivered
  tw,             \* tw[c]: the Twilio media socket of call c and its handler's closure state
  apiKey,         \* voice-transformer.js API_KEY is set (process.env.ELEVENLABS_API_KEY)
  vtStreams,      \* VoiceTransformer.activeStreams: the call identifiers with an entry
  callCount,      \* VoiceTransformer.usageTracker.callCount
  trCall,         \* the last VoiceTransformer.transform call: its arguments, the backend's answer and its outcome
  now,            \* Date.now(), in ms
  ab,             \* an AudioBuffer used on its own
  abPushed,       \* the bytes of all chunks pushed on ab, in push order
  abFlushed,      \* the bytes of all buffers ab.flush() returned, in return order
  abLast,         \* the last operation on ab: its name, the buffer before it, what it returned,
                  \* and the time of the first push since the last flush (0: none)
  BUFFER_MS,      \* part_006 BUFFER_MS: parseInt(process.env.AUDIO_BUFFER_MS) || 200
  twPreset,       \* twPreset[c]: options.voicePreset of the Twilio handler of call c
  flushes,        \* flushes[c]: chunks audioBuffer.flush() has returned to processAudioBuffer for call c
  inflight,       \* inflight[c]: processAudioBuffer activations suspended at await transform
  emitted,        \* emitted[c]: the media messages sent on the Twilio socket of call c, in send order
  mediaSent,      \* 'media' events the Twilio sockets have delivered so far, over all calls
  lastCall,       \* the call identifier the handler or continuation that ran last was working for
  codecCall,      \* a PCM buffer taken through mulawEncode and mulawDecode: how far it got and the buffers so far
  rsCall,         \* a buffer of inputSamples samples resampled fromRate -> toRate and back: the lengths so far
  pcmCall,        \* the last call of a 16-bit PCM operation: its name, its buffer, whether it threw, its result
  lt,             \* a LatencyTracker
  ltLog,          \* the (ms, stage) pairs recorded on lt since it was made or last reset, in call order
  ltCalls,        \* record calls made on lt so far
  ltLast,         \* the last call on lt: its name, its argument and what it returned
  ltMeasure,      \* the measureAsync calls on lt: those awaiting fn, and those settled, in settling order
  jb,             \* a JitterBuffer
  jbPushed,       \* the packets pushed on jb, as push stored them, in push order
  jbOut,          \* the packets pop has returned, in pop order
  jbLast,         \* the last call on jb: its name, the buffer before it, when it read the clock, what it returned
  sb,             \* a SlidingAudioBuffer
  sbPushed,       \* the bytes of all chunks pushed on sb, in push order
  sbWindows,      \* the windows getWindow has returned, in return order
  sbLast          \* the last call on sb: its name, the buffer before it, what it returned

bridgeVars == <<activeBridges, heap, gens, loops, accepted, forwarded, fwdLog>>
clientVars == <<client, sent>>
twVars == <<tw>>
vtVars == <<apiKey, vtStreams, callCount>>
vars == <<activeBridges, heap, gens, loops, accepted, forwarded, fwdLog,
          client, sent, tw, apiKey, vtStreams, callCount, trCall,
          now, ab, abPushed, abFlushed, abLast,
          BUFFER_MS, twPreset, flushes, inflight, emitted, mediaSent, lastCall,
          codecCall, rsCall, pcmCall, lt, ltLog, ltCalls, ltLast, ltMeasure,
          jb, jbPushed, jbOut, jbLast, sb, sbPushed, sbWindows, sbLast>>

clockVars == <<now>>
abVars == <<ab, abPushed, abFlushed, abLast>>

\* the variables of the components checked on their own
mediaVars == <<BUFFER_MS, twPreset, flushes, inflight, emitted, mediaSent>>
codecVars == <<codecCall>>
ltVars == <<lt, ltLog, ltCalls, ltLast, ltMeasure>>
jbVars == <<jb, jbPushed, jbOut, jbLast>>
sbVars == <<sb, sbPushed, sbWindows, sbLast>>
utilVars == <<rsCall, pcmCall, ltVars, jbVars, sbVars>>
coreVars == <<bridgeVars, client, sent, tw, vtVars, trCall, clockVars, abVars, mediaVars, lastCall, codecVars>>
pureVars == <<trCall, clockVars, abVars, mediaVars, codecVars, utilVars>>

(***************************************************************************)
(* AudioBuffer (src/src/utils/audio-buffer.js)                             *)
(*                                                                         *)
(* A buffer is a record of the object's fields.  firstChunkTime = 0 stands *)
(* for null: Date.now() is never 0, and the code only tests the field for  *)
(* truthiness.  bytesPerMs = sampleRate / 1000 is kept as the quotient it  *)
(* stands for.                                                             *)
(***************************************************************************)

CeilDiv(a, b) == (a + b - 1) \div b

MaxOf(a, b) == IF a >= b THEN a ELSE b

MinOf(a, b) == IF a <= b THEN a ELSE b

\* Buffer.concat
RECURSIVE Concat(_)
Concat(chunks) ==
  IF chunks = <<>> THEN <<>> ELSE Head(chunks) \o Concat(Tail(chunks))

\* constructor
AudioBufferNew(targetMs, sampleRate) ==
  [targetMs |-> targetMs,
   sampleRate |-> sampleRate,
   targetBytes |-> CeilDiv(targetMs * sampleRate, 1000),
   chunks |-> <<>>,
   totalBytes |-> 0,
   firstChunkTime |-> 0,
   minMs |-> MaxOf(100, targetMs - 50),
   maxMs |-> targetMs + 100]

\* push
AudioBufferPush_Prepend(b, chunk, t) ==
  [b EXCEPT !.firstChunkTime = IF Len(b.chunks) = 0 THEN t ELSE @,
            !.chunks = <<chunk>> \o @,
            !.totalBytes = @ + Len(chunk)]

AudioBufferPush(b, chunk, t) ==
  [b EXCEPT !.firstChunkTime = IF Len(b.chunks) = 0 THEN t ELSE @,
            !.chunks = Append(@, chunk),
            !.totalBytes = @ + Len(chunk)]

\* isReady
AudioBufferIsReady_StrictDeadline(b, t) ==
  IF b.totalBytes >= b.targetBytes THEN TRUE
  ELSE IF b.firstChunkTime # 0 /\ (t - b.firstChunkTime) > b.maxMs THEN b.totalBytes > 0
  ELSE FALSE

AudioBufferIsReady_AboveTarget(b, t) ==
  IF b.totalBytes > b.targetBytes THEN TRUE
  ELSE IF b.firstChunkTime # 0 /\ (t - b.firstChunkTime) >= b.maxMs THEN b.totalBytes > 0
  ELSE FALSE

AudioBufferIsReady(b, t) ==
  IF b.totalBytes >= b.targetBytes THEN TRUE
  ELSE IF b.firstChunkTime # 0 /\ (t - b.firstChunkTime) >= b.maxMs THEN b.totalBytes > 0
  ELSE FALSE

NullBuffer == [isNull |-> TRUE, bytes |-> <<>>]

\* flush: the buffer after it and what it returns
AudioBufferFlush_KeepChunks(b) ==
  IF Len(b.chunks) = 0
  THEN [buffer |-> b, result |-> NullBuffer]
  ELSE [buffer |-> [b EXCEPT !.totalBytes = 0, !.firstChunkTime = 0],
        result |-> [isNull |-> FALSE, bytes |-> Concat(b.chunks)]]

AudioBufferFlush(b) ==
  IF Len(b.chunks) = 0
  THEN [buffer |-> b, result |-> NullBuffer]
  ELSE [buffer |-> [b EXCEPT !.chunks = <<>>, !.totalBytes = 0, !.firstChunkTime = 0],
        result |-> [isNull |-> FALSE, bytes |-> Concat(b.chunks)]]

\* peek: what it returns; the buffer is left as it is
AudioBufferPeek(b) ==
  IF Len(b.chunks) = 0
  THEN NullBuffer
  ELSE [isNull |-> FALSE, bytes |-> Concat(b.chunks)]

\* clear
AudioBufferClear_KeepTime(b) ==
  [b EXCEPT !.chunks = <<>>, !.totalBytes = 0]

AudioBufferClear(b) ==
  [b EXCEPT !.chunks = <<>>, !.totalBytes = 0, !.firstChunkTime = 0]

\* adjustTarget
AudioBufferAdjustTarget_NoUpperClamp(b, newTargetMs) ==
  LET targetMs == MaxOf(b.minMs, newTargetMs)
  IN [b EXCEPT !.targetMs = targetMs,
               !.targetBytes = CeilDiv(targetMs * b.sampleRate, 1000)]

AudioBufferAdjustTarget(b, newTargetMs) ==
  LET targetMs == MaxOf(b.minMs, MinOf(b.maxMs, newTargetMs))
  IN [b EXCEPT !.targetMs = targetMs,
               !.targetBytes = CeilDiv(targetMs * b.sampleRate, 1000)]

(***************************************************************************)
(* Codec (src/unnamed/part_007)                                            *)
(*                                                                         *)
(* A Buffer is a sequence of bytes 0..255; a PCM buffer holds 16-bit       *)
(* signed little-endian samples, two bytes each.                           *)
(***************************************************************************)

\* Buffer.writeInt16LE: the two bytes of a sample in -32768..32767
WriteInt16LE(v) ==
  LET u == IF v < 0 THEN v + 65536 ELSE v IN <<u % 256, u \div 256>>

\* Buffer.readInt16LE at a byte offset counted from 0
ReadInt16LE(buf, offset) ==
  LET u == buf[offset + 1] + 256 * buf[offset + 2] IN
    IF u >= 32768 THEN u - 65536 ELSE u

RECURSIVE Pow2(_)
Pow2(n) == IF n = 0 THEN 1 ELSE 2 * Pow2(n - 1)

\* initMulawTables, decode table: with mulaw = ~i, the low eight bits of
\* mulaw are 255 - i
MULAW_DECODE_TABLE ==
  [i \in 0..255 |->
     LET mulaw == 255 - i
         sign == IF mulaw >= 128 THEN -1 ELSE 1
         exponent == (mulaw \div 16) % 8
         mantissa == mulaw % 16
         magnitude == (mantissa * 8 + 132) * Pow2(exponent) - 132
     IN sign * magnitude]

\* linearToMulaw's while loop: the exponent it ends with
RECURSIVE FindExponent(_, _, _)
FindExponent(sample, exponent, expMask) ==
  IF (sample \div expMask) % 2 = 0 /\ exponent > 0
  THEN FindExponent(sample, exponent - 1, expMask \div 2)
  ELSE exponent

\* linearToMulaw
linearToMulaw(sample) ==
  LET sign == IF sample < 0 THEN 128 ELSE 0
      magnitude == IF sample < 0 THEN -sample ELSE sample
      clipped == IF magnitude > 8191 THEN 8191 ELSE magnitude
      biased == clipped + 33
      exponent == FindExponent(biased, 7, 16384)
      mantissa == (biased \div Pow2(exponent + 3)) % 16
  IN 255 - (sign + exponent * 16 + mantissa)

\* initMulawTables, encode table: entry i is linearToMulaw(i - 32768)
MULAW_ENCODE_TABLE(tableIndex) == linearToMulaw(tableIndex - 32768)

\* mulawDecode
mulawDecode(mulawBuffer) ==
  Concat([i \in 1..Len(mulawBuffer) |-> WriteInt16LE(MULAW_DECODE_TABLE[mulawBuffer[i]])])

\* mulawEncode
mulawEncode(pcmBuffer) ==
  [i \in 1..(Len(pcmBuffer) \div 2) |->
     MULAW_ENCODE_TABLE(ReadInt16LE(pcmBuffer, (i - 1) * 2) + 32768)]

\* Math.round of the quotient num / den, den > 0: halves go up
RoundDiv(num, den) == (2 * num + den) \div (2 * den)

(* resample line 399, ratio = fromRate / toRate, and line 400,              *)
(* Math.floor(inputSamples / ratio), in IEEE-754 double arithmetic.        *)
(* The double nearest to p / q is M * 2^E with 2^52 <= M <= 2^53 and       *)
(* E = FloorLog2(p, q) - 52; all that is needed of it is how far it lies   *)
(* from p / q, which long division gives in small numbers.                 *)

\* the integer part of the binary logarithm of p / q, for p, q > 0
RECURSIVE FloorLog2(_, _)
FloorLog2(p, q) ==
  IF p < q THEN FloorLog2(2 * p, q) - 1
  ELSE IF p >= 2 * q THEN FloorLog2(p, 2 * q) + 1
  ELSE 0

\* long division of p * 2^steps by q, up to 13 bits of the quotient a step
\* (rem * 2^13 stays below 2^31 for the rates used): the remainder and
\* whether the last bit of the quotient is 1
RECURSIVE LongDivision(_, _, _, _)
LongDivision(rem, odd, q, steps) ==
  IF steps = 0 THEN [rem |-> rem, odd |-> odd]
  ELSE LET bits == MinOf(steps, 13)
           scaled == rem * Pow2(bits)
       IN LongDivision(scaled % q, (scaled \div q) % 2 = 1, q, steps - bits)

\* (M * 2^E) * q - p in units of 2^E: positive when the quotient p / q was
\* rounded up to its double (round to nearest, ties to even)
RatioExcess(p, q) ==
  LET d == LongDivision(p % q, (p \div q) % 2 = 1, q, 52 - FloorLog2(p, q))
  IN IF 2 * d.rem > q \/ (2 * d.rem = q /\ d.odd) THEN q - d.rem ELSE -d.rem

\* x * 2^t > limit, for x > 0, t >= 0
RECURSIVE ScaledExceeds(_, _, _)
ScaledExceeds(x, t, limit) ==
  IF x > limit THEN TRUE
  ELSE IF t = 0 THEN FALSE
  ELSE ScaledExceeds(2 * x, t - 1, limit)

\* x > floor(p * 2^t / q), for t >= 0, with quot = floor(p / q), rem = p % q
RECURSIVE ExceedsScaledQuotient(_, _, _, _, _)
ExceedsScaledQuotient(x, quot, rem, q, t) ==
  IF quot >= x THEN FALSE
  ELSE IF t = 0 THEN TRUE
  ELSE ExceedsScaledQuotient(x, 2 * quot + (2 * rem) \div q, (2 * rem) % q, q, t - 1)

\* inputSamples / ratio is a whole number k in exact arithmetic but the
\* double quotient is the double below k: the ratio was rounded up by more
\* than half the gap between k and the double below it allows, that is
\* k * excess * 2^t > fromRate
QuotientFallsShort(inputSamples, fromRate, toRate) ==
  /\ inputSamples > 0
  /\ (inputSamples * toRate) % fromRate = 0
  /\ LET k == (inputSamples * toRate) \div fromRate
         e == FloorLog2(k, 1)
         excess == RatioExcess(fromRate, toRate)
         t == FloorLog2(fromRate, toRate) - e + (IF k = Pow2(e) THEN 2 ELSE 1)
     IN /\ excess > 0
        /\ IF t >= 0
           THEN ScaledExceeds(k, t, fromRate \div excess)
           ELSE ExceedsScaledQuotient(k, fromRate \div excess, fromRate % excess, excess, -t)

\* mutation of resampleOutputSamples: the ratio is applied the wrong way round
resampleOutputSamples_InvertedRatio(inputSamples, fromRate, toRate) ==
  (inputSamples * fromRate) \div toRate

\* resample, lines 398-400: outputSamples
resampleOutputSamples(inputSamples, fromRate, toRate) ==
  (inputSamples * toRate) \div fromRate
    - (IF QuotientFallsShort(inputSamples, fromRate, toRate) THEN 1 ELSE 0)

\* resample: srcPos = i * fromRate / toRate is kept as the integer part
\* srcIndex and the numerator of the fraction over toRate, which is what the
\* doubles hold when the ratio is a power of two, as between the pipeline's
\* rates
resample(pcmBuffer, fromRate, toRate) ==
  IF fromRate = toRate THEN pcmBuffer
  ELSE
    LET inputSamples == Len(pcmBuffer) \div 2
        outputSamples == resampleOutputSamples(inputSamples, fromRate, toRate)
        Sample(i) ==
          LET srcIndex == (i * fromRate) \div toRate
              fracNum == (i * fromRate) % toRate
              sample1 == ReadInt16LE(pcmBuffer, MinOf(srcIndex * 2, (inputSamples - 1) * 2))
              sample2 == IF srcIndex + 1 < inputSamples
                         THEN ReadInt16LE(pcmBuffer, (srcIndex + 1) * 2)
                         ELSE sample1
              interpolated == RoundDiv(sample1 * (toRate - fracNum) + sample2 * fracNum, toRate)
          IN MaxOf(-32768, MinOf(32767, interpolated))
    IN Concat([i \in 1..outputSamples |-> WriteInt16LE(Sample(i - 1))])

\* calculateRMS: Math.sqrt(sum / numSamples), given by the two numbers under
\* the root; 0 for a buffer of no sample
calculateRMS(pcmBuffer) ==
  LET numSamples == Len(pcmBuffer) \div 2
      square(i) == ReadInt16LE(pcmBuffer, i * 2) * ReadInt16LE(pcmBuffer, i * 2)
      sum == IF numSamples = 0 THEN 0
             ELSE LET acc[i \in 0..(numSamples - 1)] ==
                        IF i = 0 THEN square(0) ELSE acc[i - 1] + square(i)
                  IN acc[numSamples - 1]
  IN IF numSamples = 0 THEN [sqrtOf |-> 0, over |-> 1]
     ELSE [sqrtOf |-> sum, over |-> numSamples]

RECURSIVE SumOver(_, _)
SumOver(f, S) ==
  IF S = {} THEN 0
  ELSE LET x == CHOOSE y \in S : TRUE IN f[x] + SumOver(f, S \ {x})

(***************************************************************************)
(* AudioBridge                                                             *)
(***************************************************************************)

\* createBridge: the object literal
NewBridge(callId) ==
  [callId |-> callId,
   clientStream |-> FALSE,
   twilioStream |-> FALSE,
   twilioStreamSid |-> NoSid,
   audioQueue |-> <<>>,
   isProcessing |-> FALSE]

HasBridge(c) == activeBridges[c] # 0

Bridge(c) == heap[c][activeBridges[c]]

\* an object that was created and is no longer the registry's entry
Removed(c, g) == g <= gens[c] /\ activeBridges[c] # g

\* processClientAudio's condition for starting a drain loop
ShouldStartDrain_NoFlag(b) ==
  b.twilioStream /\ b.twilioStreamSid # NoSid

ShouldStartDrain(b) ==
  ~b.isProcessing /\ b.twilioStream /\ b.twilioStreamSid # NoSid

\* audioQueue.shift()
Dequeue_Pop(q) ==
  [chunk |-> q[Len(q)], rest |-> SubSeq(q, 1, Len(q) - 1)]

Dequeue(q) ==
  [chunk |-> Head(q), rest |-> Tail(q)]

\* The chunks whose forwarding fails.  forwardAudioToTwilio as written only
\* logs; the forwarding it stands for (convert, transform, send) can fail,
\* and the drain loop awaits it inside try/catch.
ThrowingChunks == {2}

\* forwardAudioToTwilio: sent is TRUE when the chunk reaches the forwarding
\* branch, threw when the forwarding then fails
ForwardAudioToTwilio(b, chunk) ==
  IF ~b.twilioStream \/ b.twilioStreamSid = NoSid
  THEN [chunk |-> chunk, sent |-> FALSE, threw |-> FALSE]
  ELSE [chunk |-> chunk, sent |-> TRUE, threw |-> chunk \in ThrowingChunks]

\* One pass of processAudioQueue from its loop test to its next suspension
\* or its exit: bridge after the pass, the forward calls made, and whether
\* the activation is suspended at the await.
DrainPass_KeepFlag(b) ==
  IF Len(b.audioQueue) > 0
  THEN LET d == Dequeue(b.audioQueue) IN
       LET b1 == [b EXCEPT !.audioQueue = d.rest] IN
         [bridge |-> b1, calls |-> <<ForwardAudioToTwilio(b1, d.chunk)>>, suspended |-> TRUE]
  ELSE [bridge |-> b, calls |-> <<>>, suspended |-> FALSE]

DrainPass(b) ==
  IF Len(b.audioQueue) > 0
  THEN LET d == Dequeue(b.audioQueue) IN
       LET b1 == [b EXCEPT !.audioQueue = d.rest] IN
         [bridge |-> b1, calls |-> <<ForwardAudioToTwilio(b1, d.chunk)>>, suspended |-> TRUE]
  ELSE [bridge |-> [b EXCEPT !.isProcessing = FALSE], calls |-> <<>>, suspended |-> FALSE]

ChunksOf(calls) == [i \in 1..Len(calls) |-> calls[i].chunk]

\* removeBridge
removeBridge_ClearRegistry(c) ==
  /\ heap' = IF HasBridge(c)
             THEN [heap EXCEPT ![c][activeBridges[c]] =
                     [@ EXCEPT !.isProcessing = FALSE, !.audioQueue = <<>>]]
             ELSE heap
  /\ activeBridges' = [d \in CallIds |-> 0]
  /\ UNCHANGED <<gens, loops, accepted, forwarded, fwdLog>>

removeBridge(c) ==
  /\ heap' = IF HasBridge(c)
             THEN [heap EXCEPT ![c][activeBridges[c]] =
                     [@ EXCEPT !.isProcessing = FALSE, !.audioQueue = <<>>]]
             ELSE heap
  /\ activeBridges' = [activeBridges EXCEPT ![c] = 0]
  /\ UNCHANGED <<gens, loops, accepted, forwarded, fwdLog>>

\* connectTwilioStream.  startAudioProcessing, which it calls when the
\* client stream is attached, only logs: it starts no processAudioQueue.
connectTwilioStream(c, sid) ==
  /\ heap' = IF HasBridge(c)
             THEN [heap EXCEPT ![c][activeBridges[c]] =
                     [@ EXCEPT !.twilioStream = TRUE, !.twilioStreamSid = sid]]
             ELSE heap
  /\ UNCHANGED <<activeBridges, gens, loops, accepted, forwarded, fwdLog>>

\* processClientAudio, with the synchronous start of processAudioQueue
processClientAudio_QueueOnRemoved(c, chunk) ==
  IF ~HasBridge(c)
  THEN /\ heap' = IF gens[c] > 0
                  THEN [heap EXCEPT ![c][gens[c]].audioQueue = Append(@, chunk)]
                  ELSE heap
       /\ UNCHANGED <<activeBridges, gens, loops, accepted, forwarded, fwdLog>>
  ELSE LET g == activeBridges[c] IN
       LET b1 == [heap[c][g] EXCEPT !.audioQueue = Append(@, chunk)] IN
         /\ accepted' = [accepted EXCEPT ![c][g] = Append(@, chunk)]
         /\ UNCHANGED <<activeBridges, gens>>
         /\ IF ShouldStartDrain(b1)
            THEN LET p == DrainPass([b1 EXCEPT !.isProcessing = TRUE]) IN
                   /\ heap' = [heap EXCEPT ![c][g] = p.bridge]
                   /\ forwarded' = [forwarded EXCEPT ![c][g] = @ \o p.calls]
                   /\ fwdLog' = [fwdLog EXCEPT ![c] = @ \o ChunksOf(p.calls)]
                   /\ loops' = [loops EXCEPT ![c][g] = @ + (IF p.suspended THEN 1 ELSE 0)]
            ELSE /\ heap' = [heap EXCEPT ![c][g] = b1]
                 /\ UNCHANGED <<forwarded, fwdLog, loops>>

processClientAudio(c, chunk) ==
  IF ~HasBridge(c)
  THEN UNCHANGED bridgeVars
  ELSE LET g == activeBridges[c] IN
       LET b1 == [heap[c][g] EXCEPT !.audioQueue = Append(@, chunk)] IN
         /\ accepted' = [accepted EXCEPT ![c][g] = Append(@, chunk)]
         /\ UNCHANGED <<activeBridges, gens>>
         /\ IF ShouldStartDrain(b1)
            THEN LET p == DrainPass([b1 EXCEPT !.isProcessing = TRUE]) IN
                   /\ heap' = [heap EXCEPT ![c][g] = p.bridge]
                   /\ forwarded' = [forwarded EXCEPT ![c][g] = @ \o p.calls]
                   /\ fwdLog' = [fwdLog EXCEPT ![c] = @ \o ChunksOf(p.calls)]
                   /\ loops' = [loops EXCEPT ![c][g] = @ + (IF p.suspended THEN 1 ELSE 0)]
            ELSE /\ heap' = [heap EXCEPT ![c][g] = b1]
                 /\ UNCHANGED <<forwarded, fwdLog, loops>>

\* processAudioQueue after its await: when the awaited call threw, the
\* catch block logs the error; the loop goes on either way
AfterAwait_NoCatch(b, threw) ==
  IF threw
  THEN [bridge |-> b, calls |-> <<>>, suspended |-> FALSE]
  ELSE DrainPass(b)

AfterAwait(b, threw) ==
  DrainPass(b)

\* the forwardAudioToTwilio call the activation on object (c, g) awaits threw
AwaitedThrew(c, g) ==
  Len(forwarded[c][g]) > 0 /\ forwarded[c][g][Len(forwarded[c][g])].threw

\* A suspended processAudioQueue activation resumes after its await.
DrainResume(c, g) ==
  /\ loops[c][g] > 0
  /\ LET p == AfterAwait(heap[c][g], AwaitedThrew(c, g)) IN
       /\ heap' = [heap EXCEPT ![c][g] = p.bridge]
       /\ forwarded' = [forwarded EXCEPT ![c][g] = @ \o p.calls]
       /\ fwdLog' = [fwdLog EXCEPT ![c] = @ \o ChunksOf(p.calls)]
       /\ loops' = [loops EXCEPT ![c][g] = @ - (IF p.suspended THEN 0 ELSE 1)]
  /\ UNCHANGED <<activeBridges, gens, accepted>>
  /\ UNCHANGED <<client, sent, tw, vtVars>>
  /\ UNCHANGED pureVars
  /\ lastCall' = c

(***************************************************************************)
(* handleClientAudioStream                                                 *)
(***************************************************************************)

\* A client socket connects: create the bridge unless one is registered,
\* then connectClientStream.
ClientAttach(c) ==
  /\ client[c] # "open"
  /\ IF HasBridge(c)
     THEN /\ heap' = [heap EXCEPT ![c][activeBridges[c]] = [@ EXCEPT !.clientStream = TRUE]]
          /\ UNCHANGED <<activeBridges, gens>>
     ELSE /\ SumOver(gens, CallIds) < MaxBridges
          /\ gens' = [gens EXCEPT ![c] = @ + 1]
          /\ heap' = [heap EXCEPT ![c][gens[c] + 1] = [NewBridge(c) EXCEPT !.clientStream = TRUE]]
          /\ activeBridges' = [activeBridges EXCEPT ![c] = gens[c] + 1]
  /\ client' = [client EXCEPT ![c] = "open"]
  /\ UNCHANGED <<loops, accepted, forwarded, fwdLog, sent, tw, vtVars>>
  /\ UNCHANGED pureVars
  /\ lastCall' = c

\* socket 'message'
ClientMessage(c) ==
  /\ client[c] = "open"
  /\ sent < MaxChunks
  /\ sent' = sent + 1
  /\ processClientAudio(c, sent + 1)
  /\ UNCHANGED <<client, tw, vtVars>>
  /\ UNCHANGED pureVars
  /\ lastCall' = c

\* socket 'close'
ClientClose(c) ==
  /\ client[c] = "open"
  /\ client' = [client EXCEPT ![c] = "closed"]
  /\ removeBridge(c)
  /\ UNCHANGED <<sent, tw, vtVars>>
  /\ UNCHANGED pureVars
  /\ lastCall' = c

(***************************************************************************)
(* VoiceTransformer (src/src/services/voice-transformer.js)                *)
(***************************************************************************)

\* initializeStream: activeStreams.set(callId, ...)
initializeStream(c) ==
  /\ vtStreams' = vtStreams \cup {c}
  /\ UNCHANGED <<apiKey, callCount>>

\* closeStream
closeStream_AlwaysCount(c) ==
  /\ callCount' = callCount + 1
  /\ vtStreams' = vtStreams \ {c}
  /\ UNCHANGED apiKey

closeStream(c) ==
  /\ IF c \in vtStreams
     THEN /\ callCount' = callCount + 1
          /\ vtStreams' = vtStreams \ {c}
     ELSE UNCHANGED <<callCount, vtStreams>>
  /\ UNCHANGED apiKey

\* VOICE_PRESETS: preset identifier -> voiceId; 'custom' has the voiceId ''
\* unless CUSTOM_VOICE_ID is set
VOICE_PRESETS ==
  [deep_male |-> "pNInz6obpgDQGcFmaJgB", custom |-> ""]

Presets == {"deep_male", "custom", "no_such_voice"}

\* getVoiceId
getVoiceId(presetId) ==
  IF presetId \in DOMAIN VOICE_PRESETS THEN VOICE_PRESETS[presetId] ELSE "null"

\* !voiceId
Falsy(voiceId) == voiceId \in {"null", ""}

\* samples per PCM buffer handed to transform
MaxPcmLen == 2

PcmSamples == {0, 1}

PcmBuffers == UNION {[1..n -> PcmSamples] : n \in 0..MaxPcmLen}

\* What the backend does with one request: fetch rejects, or it answers
\* with a status and a body.
BackendAnswers ==
  {[kind |-> "reject", status |-> 0, body |-> <<>>]}
    \cup [kind : {"response"}, status : {200, 401, 500}, body : PcmBuffers]

\* response.ok
ResponseOk(status) == status >= 200 /\ status <= 299

\* callSpeechToSpeechAPI: throws when fetch rejects or the status is not a
\* success, else returns the body
callSpeechToSpeechAPI(backend) ==
  IF backend.kind = "reject" THEN [threw |-> TRUE, value |-> <<>>]
  ELSE IF ~ResponseOk(backend.status) THEN [threw |-> TRUE, value |-> <<>>]
  ELSE [threw |-> FALSE, value |-> backend.body]

\* transform reaches the backend call
CallsBackend(key, voicePreset) == key /\ ~Falsy(getVoiceId(voicePreset))

\* transform
transform_NoCatch(pcmBuffer, voicePreset, key, backend) ==
  IF ~key THEN [threw |-> FALSE, value |-> pcmBuffer]
  ELSE IF Falsy(getVoiceId(voicePreset)) THEN [threw |-> FALSE, value |-> pcmBuffer]
  ELSE callSpeechToSpeechAPI(backend)

transform_EmptyOnError(pcmBuffer, voicePreset, key, backend) ==
  IF ~key THEN [threw |-> FALSE, value |-> pcmBuffer]
  ELSE IF Falsy(getVoiceId(voicePreset)) THEN [threw |-> FALSE, value |-> pcmBuffer]
  ELSE LET response == callSpeechToSpeechAPI(backend) IN
         IF response.threw
         THEN [threw |-> FALSE, value |-> <<>>]
         ELSE [threw |-> FALSE, value |-> response.value]

transform(pcmBuffer, voicePreset, key, backend) ==
  IF ~key THEN [threw |-> FALSE, value |-> pcmBuffer]
  ELSE IF Falsy(getVoiceId(voicePreset)) THEN [threw |-> FALSE, value |-> pcmBuffer]
  ELSE LET response == callSpeechToSpeechAPI(backend) IN
         IF response.threw
         THEN [threw |-> FALSE, value |-> pcmBuffer]
         ELSE [threw |-> FALSE, value |-> response.value]

NoCall ==
  [called |-> FALSE, pcm |-> <<>>, preset |-> "deep_male",
   backend |-> [kind |-> "reject", status |-> 0, body |-> <<>>],
   result |-> [threw |-> FALSE, value |-> <<>>]]

\* one call of transform, from its entry to its return or throw
TransformCall(pcm, preset, backend) ==
  /\ trCall' = [called |-> TRUE, pcm |-> pcm, preset |-> preset, backend |-> backend,
                result |-> transform(pcm, preset, apiKey, backend)]
  /\ UNCHANGED <<bridgeVars, client, sent, tw, vtVars, clockVars, abVars, mediaVars, lastCall, codecVars, utilVars>>

(***************************************************************************)
(* handleMediaStream                                                       *)
(***************************************************************************)

SAMPLE_RATE_TWILIO == 8000

SAMPLE_RATE_ELEVENLABS == 16000

\* the closure state of handleMediaStream and its socket
NewTwilioHandler ==
  [sock |-> "open", isConnected |-> FALSE, streamSid |-> NoSid, stopped |-> FALSE,
   audioBuffer |-> AudioBufferNew(BUFFER_MS, SAMPLE_RATE_TWILIO)]

NoTwilioHandler ==
  [sock |-> "none", isConnected |-> FALSE, streamSid |-> NoSid, stopped |-> FALSE,
   audioBuffer |-> AudioBufferNew(BUFFER_MS, SAMPLE_RATE_TWILIO)]

\* The Twilio media socket connects and handleMediaStream runs.
TwilioOpen(c) ==
  /\ tw[c].sock = "none"
  /\ tw' = [tw EXCEPT ![c] = NewTwilioHandler]
  /\ UNCHANGED <<bridgeVars, client, sent, vtVars>>
  /\ UNCHANGED pureVars
  /\ lastCall' = c

\* event 'connected': the first message of a Twilio media socket
TwilioConnected(c) ==
  /\ tw[c].sock = "open"
  /\ ~tw[c].isConnected /\ tw[c].streamSid = NoSid /\ ~tw[c].stopped
  /\ tw' = [tw EXCEPT ![c].isConnected = TRUE]
  /\ UNCHANGED <<bridgeVars, client, sent, vtVars>>
  /\ UNCHANGED pureVars
  /\ lastCall' = c

\* event 'start': sent once, after 'connected'
TwilioStart(c, sid) ==
  /\ tw[c].sock = "open"
  /\ tw[c].isConnected /\ tw[c].streamSid = NoSid
  /\ tw' = [tw EXCEPT ![c].streamSid = sid]
  /\ initializeStream(c)
  /\ connectTwilioStream(c, sid)
  /\ UNCHANGED <<client, sent>>
  /\ UNCHANGED pureVars
  /\ lastCall' = c

\* event 'stop': sent once, after 'start'
TwilioStop(c) ==
  /\ tw[c].sock = "open"
  /\ tw[c].streamSid # NoSid /\ ~tw[c].stopped
  /\ tw' = [tw EXCEPT ![c].isConnected = FALSE, ![c].stopped = TRUE]
  /\ closeStream(c)
  /\ removeBridge(c)
  /\ UNCHANGED <<client, sent>>
  /\ UNCHANGED pureVars
  /\ lastCall' = c

\* socket 'close'
TwilioClose(c) ==
  /\ tw[c].sock = "open"
  /\ tw' = [tw EXCEPT ![c].sock = "closed", ![c].isConnected = FALSE]
  /\ closeStream(c)
  /\ UNCHANGED <<bridgeVars, client, sent>>
  /\ UNCHANGED pureVars
  /\ lastCall' = c

\* processAudioBuffer from the return of transform to its end: the empty
\* result is dropped, else resample, encode and send if the socket is open
\* A message is recorded with the activation it comes from: the number of
\* the flush, the number of the 'media' event that caused it and the chunk.
\* Each stage's buffer is bound by \E over a singleton, so that it is
\* computed once.
AfterTransform(c, activation, result) ==
  \E transformedPcm \in {result} :
    IF Len(transformedPcm) = 0 THEN UNCHANGED emitted
    ELSE
      \E outputPcm \in {resample(transformedPcm, SAMPLE_RATE_ELEVENLABS, SAMPLE_RATE_TWILIO)} :
      \E mulawOutput \in {mulawEncode(outputPcm)} :
        LET mediaMessage == [flush |-> activation.flush, seq |-> activation.seq,
                             chunk |-> activation.chunk,
                             streamSid |-> tw[c].streamSid, payload |-> mulawOutput]
        IN IF tw[c].sock = "open"
           THEN emitted' = [emitted EXCEPT ![c] = Append(@, mediaMessage)]
           ELSE UNCHANGED emitted

\* transform answers without reaching the backend
NoAnswer == [kind |-> "reject", status |-> 0, body |-> <<>>]

\* processAudioBuffer from its entry to await transform, on the buffer the
\* 'media' case has just pushed to
processAudioBuffer_NoStartedTest(c, audioBuffer) ==
  LET f == AudioBufferFlush(audioBuffer)
      chunk == f.result.bytes
  IN /\ tw' = [tw EXCEPT ![c].audioBuffer = f.buffer]
     /\ IF f.result.isNull \/ Len(chunk) = 0
        THEN UNCHANGED <<flushes, inflight, emitted>>
        ELSE
          LET pcmBuffer == mulawDecode(chunk)
              resampledPcm == resample(pcmBuffer, SAMPLE_RATE_TWILIO, SAMPLE_RATE_ELEVENLABS)
              activation == [flush |-> flushes[c] + 1, seq |-> mediaSent + 1,
                             chunk |-> chunk, pcm |-> resampledPcm]
          IN /\ flushes' = [flushes EXCEPT ![c] = activation.flush]
             /\ IF CallsBackend(apiKey, twPreset[c])
                THEN /\ inflight' = [inflight EXCEPT ![c] = @ \cup {activation}]
                     /\ UNCHANGED emitted
                ELSE /\ UNCHANGED inflight
                     /\ AfterTransform(c, activation,
                          transform(resampledPcm, twPreset[c], apiKey, NoAnswer).value)

processAudioBuffer(c, audioBuffer) ==
  IF ~tw[c].isConnected \/ tw[c].streamSid = NoSid
  THEN /\ tw' = [tw EXCEPT ![c].audioBuffer = audioBuffer]
       /\ UNCHANGED <<flushes, inflight, emitted>>
  ELSE
    LET f == AudioBufferFlush(audioBuffer)
        chunk == f.result.bytes
    IN /\ tw' = [tw EXCEPT ![c].audioBuffer = f.buffer]
       /\ IF f.result.isNull \/ Len(chunk) = 0
          THEN UNCHANGED <<flushes, inflight, emitted>>
          ELSE
            LET pcmBuffer == mulawDecode(chunk)
                resampledPcm == resample(pcmBuffer, SAMPLE_RATE_TWILIO, SAMPLE_RATE_ELEVENLABS)
                activation == [flush |-> flushes[c] + 1, seq |-> mediaSent + 1,
                               chunk |-> chunk, pcm |-> resampledPcm]
            IN /\ flushes' = [flushes EXCEPT ![c] = activation.flush]
               /\ IF CallsBackend(apiKey, twPreset[c])
                  THEN /\ inflight' = [inflight EXCEPT ![c] = @ \cup {activation}]
                       /\ UNCHANGED emitted
                  ELSE /\ UNCHANGED inflight
                       /\ AfterTransform(c, activation,
                            transform(resampledPcm, twPreset[c], apiKey, NoAnswer).value)

\* socket.on('message'): the event loop hands a message of an open socket to
\* the handler whenever no handler is running, whatever calls are awaited
SocketDelivers_WhenIdle(c) ==
  tw[c].sock = "open" /\ \A d \in CallIds : inflight[d] = {}

SocketDelivers(c) ==
  tw[c].sock = "open"

\* event 'media': push the payload, and start processAudioBuffer without
\* awaiting it when the buffer is ready
TwilioMedia(c, payload) ==
  /\ SocketDelivers(c)
  /\ mediaSent < MaxMedia
  /\ mediaSent' = mediaSent + 1
  /\ LET audioBuffer == AudioBufferPush(tw[c].audioBuffer, payload, now) IN
       IF AudioBufferIsReady(audioBuffer, now)
       THEN processAudioBuffer(c, audioBuffer)
       ELSE /\ tw' = [tw EXCEPT ![c].audioBuffer = audioBuffer]
            /\ UNCHANGED <<flushes, inflight, emitted>>
  /\ UNCHANGED <<bridgeVars, client, sent, vtVars, BUFFER_MS, twPreset>>
  /\ UNCHANGED <<trCall, clockVars, abVars, codecVars, utilVars>>
  /\ lastCall' = c

\* the backend answers the request of a suspended processAudioBuffer
\* activation: transform returns and the activation runs to its end
TransformReturn(c, flush, backend) ==
  /\ \E activation \in inflight[c] :
       /\ activation.flush = flush
       /\ inflight' = [inflight EXCEPT ![c] = @ \ {activation}]
       /\ AfterTransform(c, activation,
            transform(activation.pcm, twPreset[c], apiKey, backend).value)
  /\ UNCHANGED <<bridgeVars, client, sent, tw, vtVars, BUFFER_MS, twPreset, flushes, mediaSent>>
  /\ UNCHANGED <<trCall, clockVars, abVars, codecVars, utilVars>>
  /\ lastCall' = c

(***************************************************************************)
(* Spec: the bridge and the two handlers that drive it                     *)
(***************************************************************************)

InitBridge ==
  /\ activeBridges = [c \in CallIds |-> 0]
  /\ heap = [c \in CallIds |-> [g \in ObjGens |-> NewBridge(c)]]
  /\ gens = [c \in CallIds |-> 0]
  /\ loops = [c \in CallIds |-> [g \in ObjGens |-> 0]]
  /\ accepted = [c \in CallIds |-> [g \in ObjGens |-> <<>>]]
  /\ forwarded = [c \in CallIds |-> [g \in ObjGens |-> <<>>]]
  /\ fwdLog = [c \in CallIds |-> <<>>]

InitHandlers ==
  /\ client = [c \in CallIds |-> "none"]
  /\ sent = 0
  /\ tw = [c \in CallIds |-> NoTwilioHandler]
  /\ lastCall = "none"

InitTransformer ==
  /\ vtStreams = {}
  /\ callCount = 0

\* the handlers' configuration and an idle pipeline
InitMedia(bufferMs, preset) ==
  /\ BUFFER_MS = bufferMs
  /\ twPreset = [c \in CallIds |-> preset]
  /\ flushes = [c \in CallIds |-> 0]
  /\ inflight = [c \in CallIds |-> {}]
  /\ emitted = [c \in CallIds |-> <<>>]
  /\ mediaSent = 0

\* production configuration: BUFFER_MS and the Twilio sample rate
DefaultBuffer == AudioBufferNew(200, 8000)

InitClock ==
  now = 1

InitBufferAt(b) ==
  /\ ab = b
  /\ abPushed = <<>>
  /\ abFlushed = <<>>
  /\ abLast = [op |-> "new", pre |-> b, ret |-> NullBuffer, firstAt |-> 0]

(***************************************************************************)
(* LatencyTracker (src/src/utils/latency-tracker.js)                       *)
(***************************************************************************)

\* the names record is called with; "undefined" stands for a call without
\* the second argument
StageArgs == {"undefined", "total", "transform"}

\* the stage measureAsync is called with; "undefined": the default applies
MeasuredStageArgs == {"undefined", "transform"}

\* measureAsync(fn, tracker, stage = 'operation')
MeasuredStage(stageArg) == IF stageArg = "undefined" THEN "operation" ELSE stageArg

\* `${stage}_error`
ErrorStage(stage) == stage \o "_error"

\* the stages the tracker's Map can get an entry for
StageNames ==
  (StageArgs \ {"undefined"})
    \cup {MeasuredStage(stageArg) : stageArg \in MeasuredStageArgs}
    \cup {ErrorStage(MeasuredStage(stageArg)) : stageArg \in MeasuredStageArgs}

\* the entry stages.set makes for a new stage; has = FALSE: the Map has no
\* entry for the stage
NoStage == [has |-> FALSE, samples |-> <<>>, sum |-> 0, count |-> 0]

\* constructor
LatencyTrackerNew(windowSize) ==
  [windowSize |-> windowSize,
   samples |-> <<>>,
   totalSamples |-> 0,
   runningSum |-> 0,
   stages |-> [stage \in StageNames |-> NoStage],
   warningThreshold |-> 300,
   criticalThreshold |-> 500]

\* mutation of LatencyTrackerRecord: the stage window is cut one sample late
LatencyTrackerRecord_LateEviction(t, ms, stageArg) ==
  LET stage == IF stageArg = "undefined" THEN "total" ELSE stageArg
      pushed == Append(t.samples, ms)
      over == Len(pushed) > t.windowSize
      old == IF t.stages[stage].has THEN t.stages[stage] ELSE [NoStage EXCEPT !.has = TRUE]
      stagePushed == Append(old.samples, ms)
      stageOver == Len(stagePushed) > t.windowSize + 1
      stageData == [has |-> TRUE,
                    samples |-> IF stageOver THEN Tail(stagePushed) ELSE stagePushed,
                    sum |-> IF stageOver THEN old.sum + ms - Head(stagePushed) ELSE old.sum + ms,
                    count |-> old.count + 1]
  IN [t EXCEPT !.samples = IF over THEN Tail(pushed) ELSE pushed,
               !.runningSum = IF over THEN t.runningSum + ms - Head(pushed) ELSE t.runningSum + ms,
               !.totalSamples = t.totalSamples + 1,
               !.stages[stage] = stageData]

\* mutation of LatencyTrackerRecord: the evicted sample stays in runningSum
LatencyTrackerRecord_SumKeepsEvicted(t, ms, stageArg) ==
  LET stage == IF stageArg = "undefined" THEN "total" ELSE stageArg
      pushed == Append(t.samples, ms)
      over == Len(pushed) > t.windowSize
      old == IF t.stages[stage].has THEN t.stages[stage] ELSE [NoStage EXCEPT !.has = TRUE]
      stagePushed == Append(old.samples, ms)
      stageOver == Len(stagePushed) > t.windowSize
      stageData == [has |-> TRUE,
                    samples |-> IF stageOver THEN Tail(stagePushed) ELSE stagePushed,
                    sum |-> IF stageOver THEN old.sum + ms - Head(stagePushed) ELSE old.sum + ms,
                    count |-> old.count + 1]
  IN [t EXCEPT !.samples = IF over THEN Tail(pushed) ELSE pushed,
               !.runningSum = t.runningSum + ms,
               !.totalSamples = t.totalSamples + 1,
               !.stages[stage] = stageData]

\* record(ms, stage = 'total')
LatencyTrackerRecord(t, ms, stageArg) ==
  LET stage == IF stageArg = "undefined" THEN "total" ELSE stageArg
      pushed == Append(t.samples, ms)
      over == Len(pushed) > t.windowSize
      old == IF t.stages[stage].has THEN t.stages[stage] ELSE [NoStage EXCEPT !.has = TRUE]
      stagePushed == Append(old.samples, ms)
      stageOver == Len(stagePushed) > t.windowSize
      stageData == [has |-> TRUE,
                    samples |-> IF stageOver THEN Tail(stagePushed) ELSE stagePushed,
                    sum |-> IF stageOver THEN old.sum + ms - Head(stagePushed) ELSE old.sum + ms,
                    count |-> old.count + 1]
  IN [t EXCEPT !.samples = IF over THEN Tail(pushed) ELSE pushed,
               !.runningSum = IF over THEN t.runningSum + ms - Head(pushed) ELSE t.runningSum + ms,
               !.totalSamples = t.totalSamples + 1,
               !.stages[stage] = stageData]

\* [...samples].sort((a, b) => a - b): insertion of x into a sorted sequence
RECURSIVE InsertSorted(_, _)
InsertSorted(sorted, x) ==
  IF Len(sorted) = 0 THEN <<x>>
  ELSE IF x < Head(sorted) THEN <<x>> \o sorted
  ELSE <<Head(sorted)>> \o InsertSorted(Tail(sorted), x)

RECURSIVE SortAscending(_)
SortAscending(samples) ==
  IF Len(samples) = 0 THEN <<>>
  ELSE InsertSorted(SortAscending(Tail(samples)), Head(samples))

\* sorted[Math.floor(sorted.length * p)] for p = num / den, counted from 0.
\* The doubles 0.5, 0.95 and 0.99 times a length below 2^31 give a product
\* whose floor is the floor of the exact product.
Percentile(sorted, num, den) == sorted[(Len(sorted) * num) \div den + 1]

NoReturn == [isNull |-> TRUE]

\* getMetrics
LatencyTrackerGetMetrics(t) ==
  IF Len(t.samples) = 0
  THEN [isNull |-> FALSE, average |-> 0, min |-> 0, max |-> 0,
        p50 |-> 0, p95 |-> 0, p99 |-> 0, count |-> 0]
  ELSE LET sorted == SortAscending(t.samples) IN
       [isNull |-> FALSE,
        average |-> RoundDiv(t.runningSum, Len(t.samples)),
        min |-> sorted[1],
        max |-> sorted[Len(sorted)],
        p50 |-> Percentile(sorted, 1, 2),
        p95 |-> Percentile(sorted, 95, 100),
        p99 |-> Percentile(sorted, 99, 100),
        count |-> t.totalSamples]

\* getStageMetrics
LatencyTrackerGetStageMetrics(t, stage) ==
  LET stageData == t.stages[stage] IN
    IF ~stageData.has \/ Len(stageData.samples) = 0 THEN NoReturn
    ELSE LET sorted == SortAscending(stageData.samples) IN
         [isNull |-> FALSE,
          stage |-> stage,
          average |-> RoundDiv(stageData.sum, Len(stageData.samples)),
          min |-> sorted[1],
          max |-> sorted[Len(sorted)],
          p95 |-> Percentile(sorted, 95, 100),
          count |-> stageData.count]

\* mutation of LatencyTrackerGetStatus: p99 is classified in place of p95
LatencyTrackerGetStatus_P99(t) ==
  LET metrics == LatencyTrackerGetMetrics(t) IN
    IF metrics.p99 >= t.criticalThreshold THEN "critical"
    ELSE IF metrics.p99 >= t.warningThreshold THEN "warning"
    ELSE "ok"

\* getStatus
LatencyTrackerGetStatus(t) ==
  LET metrics == LatencyTrackerGetMetrics(t) IN
    IF metrics.p95 >= t.criticalThreshold THEN "critical"
    ELSE IF metrics.p95 >= t.warningThreshold THEN "warning"
    ELSE "ok"

\* reset
LatencyTrackerReset(t) ==
  [t EXCEPT !.samples = <<>>, !.runningSum = 0, !.totalSamples = 0,
            !.stages = [stage \in StageNames |-> NoStage]]

(***************************************************************************)
(* JitterBuffer (src/src/utils/audio-buffer.js)                            *)
(***************************************************************************)

\* constructor; lastOutputTime is set to null here and used nowhere else
JitterBufferNew(targetDelayMs, maxDelayMs) ==
  [targetDelayMs |-> targetDelayMs,
   maxDelayMs |-> maxDelayMs,
   packets |-> <<>>,
   lastOutputTime |-> "null"]

\* packets.sort((a, b) => a.timestamp - b.timestamp): the sort is stable,
\* a packet goes behind those whose timestamp is not greater
RECURSIVE InsertByTimestamp_BeforeEqual(_, _)
InsertByTimestamp_BeforeEqual(sorted, p) ==
  IF Len(sorted) = 0 THEN <<p>>
  ELSE IF p.timestamp <= Head(sorted).timestamp THEN <<p>> \o sorted
  ELSE <<Head(sorted)>> \o InsertByTimestamp_BeforeEqual(Tail(sorted), p)

RECURSIVE InsertByTimestamp(_, _)
InsertByTimestamp(sorted, p) ==
  IF Len(sorted) = 0 THEN <<p>>
  ELSE IF p.timestamp < Head(sorted).timestamp THEN <<p>> \o sorted
  ELSE <<Head(sorted)>> \o InsertByTimestamp(Tail(sorted), p)

RECURSIVE SortByTimestamp(_)
SortByTimestamp(packets) ==
  IF Len(packets) = 0 THEN <<>>
  ELSE InsertByTimestamp(SortByTimestamp(SubSeq(packets, 1, Len(packets) - 1)),
                         packets[Len(packets)])

\* push(data, timestamp): receivedAt is the first Date.now(), filterAt the
\* second
JitterBufferPush(b, data, timestamp, receivedAt, filterAt) ==
  LET pushed == Append(b.packets, [data |-> data, timestamp |-> timestamp,
                                   receivedAt |-> receivedAt])
      sorted == SortByTimestamp(pushed)
  IN [b EXCEPT !.packets =
        SelectSeq(sorted, LAMBDA p : (filterAt - p.receivedAt) < b.maxDelayMs)]

\* mutation of JitterBufferPop: the first packet is released at once
JitterBufferPop_NoDelay(b, at) ==
  IF Len(b.packets) = 0 THEN [buffer |-> b, result |-> NullBuffer]
  ELSE [buffer |-> [b EXCEPT !.packets = Tail(b.packets)],
        result |-> [isNull |-> FALSE, bytes |-> Head(b.packets).data]]

\* pop(), with at the value of its Date.now()
JitterBufferPop(b, at) ==
  IF Len(b.packets) = 0 THEN [buffer |-> b, result |-> NullBuffer]
  ELSE LET oldest == b.packets[1]
           delay == at - oldest.receivedAt
       IN IF delay >= b.targetDelayMs
          THEN [buffer |-> [b EXCEPT !.packets = Tail(b.packets)],
                result |-> [isNull |-> FALSE, bytes |-> oldest.data]]
          ELSE [buffer |-> b, result |-> NullBuffer]

(***************************************************************************)
(* SlidingAudioBuffer (src/src/utils/audio-buffer.js)                      *)
(***************************************************************************)

\* Math.ceil(ms * (sampleRate / 1000)) for a sample rate that is a multiple
\* of 1000, where bytesPerMs is a whole number
CeilBytes(ms, sampleRate) == ms * (sampleRate \div 1000)

\* constructor
SlidingAudioBufferNew(windowMs, hopMs, sampleRate) ==
  [windowMs |-> windowMs,
   hopMs |-> hopMs,
   sampleRate |-> sampleRate,
   windowBytes |-> CeilBytes(windowMs, sampleRate),
   hopBytes |-> CeilBytes(hopMs, sampleRate),
   buffer |-> <<>>]

\* push
SlidingAudioBufferPush(b, chunk) == [b EXCEPT !.buffer = b.buffer \o chunk]

\* isReady
SlidingAudioBufferIsReady(b) == Len(b.buffer) >= b.windowBytes

\* buffer.subarray(start): start is clamped to the length
Subarray(buffer, start) ==
  IF start >= Len(buffer) THEN <<>> ELSE SubSeq(buffer, start + 1, Len(buffer))

\* getWindow
SlidingAudioBufferGetWindow(b) ==
  IF ~SlidingAudioBufferIsReady(b) THEN [buffer |-> b, result |-> NullBuffer]
  ELSE [buffer |-> [b EXCEPT !.buffer = Subarray(b.buffer, b.hopBytes)],
        result |-> [isNull |-> FALSE, bytes |-> SubSeq(b.buffer, 1, b.windowBytes)]]

NoCodecCall == [stage |-> "none", pcm |-> <<>>, mulaw |-> <<>>, decoded |-> <<>>]

InitCodec ==
  codecCall = NoCodecCall

NoResampleCall == [stage |-> "none", inputSamples |-> 0, fromRate |-> 1, toRate |-> 1, forth |-> 0, back |-> 0]

InitResampleCall ==
  rsCall = NoResampleCall

NoPcmCall == [op |-> "none", pcm |-> <<>>, threw |-> FALSE, result |-> <<>>]

InitPcmCall ==
  pcmCall = NoPcmCall

\* what fn does: it resolves with a value or rejects with an error
FnOutcomes ==
  {[rejects |-> FALSE, value |-> "result"], [rejects |-> TRUE, value |-> "error"]}

\* measureAsync from the settling of fn to its end, with start and at the
\* values of its two Date.now(): the tracker after it, the record calls it
\* made, whether it throws, what it throws or the result it returns, and
\* the duration
measureAsync_ErrorUnderStage(t, stageArg, start, at, outcome) ==
  LET duration == at - start
      stage == MeasuredStage(stageArg)
  IN [tracker |-> LatencyTrackerRecord(t, duration, stage),
      recorded |-> <<[ms |-> duration, stage |-> stage]>>,
      threw |-> outcome.rejects,
      value |-> outcome.value,
      duration |-> duration]

measureAsync(t, stageArg, start, at, outcome) ==
  LET duration == at - start
      stage == IF outcome.rejects
               THEN ErrorStage(MeasuredStage(stageArg))
               ELSE MeasuredStage(stageArg)
  IN [tracker |-> LatencyTrackerRecord(t, duration, stage),
      recorded |-> <<[ms |-> duration, stage |-> stage]>>,
      threw |-> outcome.rejects,
      value |-> outcome.value,
      duration |-> duration]

NoMeasure == [pending |-> {}, settled |-> <<>>]

InitTracker ==
  /\ lt = LatencyTrackerNew(100)
  /\ ltLog = <<>>
  /\ ltCalls = 0
  /\ ltLast = [op |-> "new", arg |-> "", ret |-> NoReturn]
  /\ ltMeasure = NoMeasure

InitJitterAt(b) ==
  /\ jb = b
  /\ jbPushed = <<>>
  /\ jbOut = <<>>
  /\ jbLast = [op |-> "new", pre |-> b, at |-> 0, ret |-> NullBuffer]

InitJitter ==
  InitJitterAt(JitterBufferNew(100, 500))

InitSlidingAt(b) ==
  /\ sb = b
  /\ sbPushed = <<>>
  /\ sbWindows = <<>>
  /\ sbLast = [op |-> "new", pre |-> b, ret |-> NullBuffer]

InitSliding ==
  InitSlidingAt(SlidingAudioBufferNew(200, 100, 8000))

InitUtil ==
  /\ InitResampleCall
  /\ InitPcmCall
  /\ InitTracker
  /\ InitJitter
  /\ InitSliding

Init ==
  /\ InitBridge
  /\ InitMedia(200, "deep_male")
  /\ InitHandlers
  /\ InitTransformer
  /\ apiKey = TRUE
  /\ trCall = NoCall
  /\ InitClock
  /\ InitBufferAt(DefaultBuffer)
  /\ InitCodec
  /\ InitUtil

Next ==
  \/ \E c \in CallIds : ClientAttach(c)
  \/ \E c \in CallIds : ClientMessage(c)
  \/ \E c \in CallIds : ClientClose(c)
  \/ \E c \in CallIds : TwilioOpen(c)
  \/ \E c \in CallIds : TwilioConnected(c)
  \/ \E c \in CallIds, sid \in StreamSids : TwilioStart(c, sid)
  \/ \E c \in CallIds : TwilioStop(c)
  \/ \E c \in CallIds : TwilioClose(c)
  \/ \E c \in CallIds, g \in ObjGens : DrainResume(c, g)

Spec == Init /\ [][Next]_vars

(***************************************************************************)
(* Properties of the bridge                                                *)
(***************************************************************************)

IsPrefix(s, t) == Len(s) <= Len(t) /\ SubSeq(t, 1, Len(s)) = s

StrictlyIncreasing(s) == \A i \in 1..Len(s) : \A j \in 1..Len(s) : i < j => s[i] < s[j]

\* C1: every bridge object has at most one processAudioQueue activation at
\* any instant, whatever the interleaving of chunk arrivals, endpoint
\* connects, removeBridge and resumptions of the suspended loop; a chunk
\* arriving while the loop is suspended is queued and starts no second loop.
C1_SingleDrainLoop ==
  \A c \in CallIds : \A g \in ObjGens :
    /\ loops[c][g] <= 1
    /\ (activeBridges[c] = g /\ loops[c][g] = 1) => heap[c][g].isProcessing

\* a chunk arrived while the loop of a registered bridge was suspended, and
\* was queued behind it
C1_Witness ==
  \E c \in CallIds :
    /\ HasBridge(c)
    /\ loops[c][activeBridges[c]] = 1
    /\ Len(Bridge(c).audioQueue) >= 1
    /\ Len(forwarded[c][activeBridges[c]]) >= 1

\* C2: the chunks of a call are handed to forwardAudioToTwilio in the order
\* processClientAudio accepted them: on each bridge object the forwarded
\* chunks are a prefix of the accepted ones, and over the whole call the
\* forwarded chunk numbers increase.
C2_ForwardInArrivalOrder ==
  \A c \in CallIds :
    /\ StrictlyIncreasing(fwdLog[c])
    /\ \A g \in ObjGens : IsPrefix(ChunksOf(forwarded[c][g]), accepted[c][g])

\* two chunks queued before the loop started were forwarded, a third waits
C2_Witness ==
  \E c \in CallIds : \E g \in ObjGens :
    /\ Len(forwarded[c][g]) >= 2
    /\ Len(accepted[c][g]) > Len(forwarded[c][g])

\* C7: when an endpoint signals closure, the chunks still in
\* the queue are forwarded before the bridge leaves the registry, so every
\* chunk a removed bridge accepted has been handed to forwardAudioToTwilio.
C7_CloseForwardsQueuedChunks ==
  \A c \in CallIds : \A g \in ObjGens :
    Removed(c, g) => ChunksOf(forwarded[c][g]) = accepted[c][g]

\* the Twilio endpoint of call c is attached and has not signalled closure
TwilioEndpointOpen(c) ==
  tw[c].sock = "open" /\ tw[c].streamSid # NoSid /\ ~tw[c].stopped

\* C8: a bridge leaves the registry only in a step after which
\* neither of its endpoints is open.
C8_RemovedOnlyAfterBothClosed ==
  [][\A c \in CallIds :
       (activeBridges[c] # 0 /\ activeBridges'[c] = 0)
         => (client'[c] # "open" /\ ~TwilioEndpointOpen(c)')]_vars

\* no endpoint of call c has signalled closure yet
NoClosureYet(c) ==
  /\ client[c] # "closed"
  /\ gens[c] <= 1
  /\ tw[c].sock # "closed"
  /\ ~tw[c].stopped

\* C9: whichever endpoint attaches first, a bridge exists from
\* then on and holds every endpoint attached so far; once both are attached
\* it holds both.
C9_EitherEndpointCreatesSession ==
  \A c \in CallIds :
    NoClosureYet(c) =>
      /\ (tw[c].sock = "open" /\ tw[c].streamSid # NoSid)
           => (HasBridge(c) /\ Bridge(c).twilioStream /\ Bridge(c).twilioStreamSid = tw[c].streamSid)
      /\ client[c] = "open" => (HasBridge(c) /\ Bridge(c).clientStream)

\* a queue depth below the number of chunks the clients deliver
QueueDepthLimit == MaxChunks - 1

\* C10: the ingress queue of a bridge never grows beyond a
\* maximum depth.
C10_QueueDepthBounded ==
  \A c \in CallIds : \A g \in ObjGens :
    Len(heap[c][g].audioQueue) <= QueueDepthLimit

Session(c) == <<activeBridges[c], heap[c], loops[c]>>

\* C13: a handler or continuation working for one call leaves the session
\* of every other call unchanged: registry entry, endpoints, queue contents
\* and order, isProcessing.
C13_SessionsIsolated ==
  [][\A b \in CallIds : b # lastCall' => Session(b)' = Session(b)]_vars

\* the bridge of one call has just been removed while another call has a
\* registered bridge with both endpoints, a queued chunk and a running drain
\* loop
C13_Witness ==
  /\ lastCall \in CallIds
  /\ ~HasBridge(lastCall)
  /\ gens[lastCall] > 0
  /\ \E b \in CallIds :
       /\ b # lastCall
       /\ HasBridge(b)
       /\ Bridge(b).clientStream /\ Bridge(b).twilioStream
       /\ Bridge(b).isProcessing
       /\ Len(Bridge(b).audioQueue) >= 1
       /\ loops[b][activeBridges[b]] = 1

\* chunks pushed on the queues of all bridge objects so far
TotalAccepted ==
  SumOver([c \in CallIds |-> SumOver([g \in ObjGens |-> Len(accepted[c][g])], ObjGens)], CallIds)

\* C11: a step of processClientAudio for a call identifier without a
\* registered bridge changes nothing in the bridge: no object is created,
\* no queue grows, no drain loop starts, the registry and every bridge
\* object stay as they were.
C11_NoSessionDropsChunk ==
  [][(sent' = sent + 1 /\ ~HasBridge(lastCall')) => UNCHANGED bridgeVars]_vars

\* the last handler delivered a chunk for a call whose bridge had been
\* removed while its client socket stayed open, and the chunk is in no queue
C11_Witness ==
  /\ lastCall \in CallIds
  /\ client[lastCall] = "open"
  /\ ~HasBridge(lastCall)
  /\ gens[lastCall] > 0
  /\ sent > TotalAccepted
  /\ \E d \in CallIds : d # lastCall /\ HasBridge(d)

\* both endpoints are attached to the registered bridge of call c
BothAttached(c) ==
  /\ HasBridge(c)
  /\ Bridge(c).clientStream
  /\ Bridge(c).twilioStream
  /\ Bridge(c).twilioStreamSid # NoSid

\* C29: a chunk accepted into the queue of a registered bridge is forwarded
\* once both endpoints are attached without waiting for another chunk.  Only
\* a processAudioQueue activation takes chunks off the queue, so whenever
\* both endpoints are attached and a chunk is queued, an activation is
\* running on the bridge.
C29_QueuedChunkIsBeingDrained ==
  \A c \in CallIds :
    (BothAttached(c) /\ Len(Bridge(c).audioQueue) > 0)
      => loops[c][activeBridges[c]] >= 1

\* C30: on every registered bridge isProcessing is TRUE exactly when a
\* processAudioQueue activation is running on it.
C30_FlagIffLoopActive ==
  \A c \in CallIds :
    HasBridge(c) => (Bridge(c).isProcessing <=> loops[c][activeBridges[c]] >= 1)

\* the loop of one registered bridge has forwarded a chunk, found the queue
\* empty and cleared the flag, while the loop of another registered bridge
\* is suspended with the flag set
C30_Witness ==
  \E c \in CallIds : \E d \in CallIds :
    /\ c # d
    /\ HasBridge(c) /\ HasBridge(d)
    /\ Len(forwarded[c][activeBridges[c]]) >= 1
    /\ loops[c][activeBridges[c]] = 0
    /\ ~Bridge(c).isProcessing
    /\ loops[d][activeBridges[d]] = 1
    /\ Bridge(d).isProcessing

\* Every forwardAudioToTwilio call returns or throws: a suspended
\* processAudioQueue activation is resumed by the event loop.
FairDrain ==
  \A c \in CallIds : \A g \in ObjGens : WF_vars(DrainResume(c, g))

SpecDrainLive == Init /\ [][Next]_vars /\ FairDrain

\* C31: the clients deliver finitely many chunks and every awaited forward
\* call completes; then a processAudioQueue activation running on a bridge
\* object eventually finds the queue empty and exits with isProcessing
\* cleared.
C31_DrainLoopTerminates ==
  \A c \in CallIds : \A g \in ObjGens :
    (loops[c][g] >= 1)
      ~> (loops[c][g] = 0 /\ heap[c][g].audioQueue = <<>> /\ ~heap[c][g].isProcessing)

\* a loop that forwarded every delivered chunk of a still registered bridge,
\* one of them failing, has exited
C31_Witness ==
  \E c \in CallIds : \E g \in ObjGens :
    /\ activeBridges[c] = g
    /\ Len(forwarded[c][g]) = MaxChunks
    /\ \E i \in 1..MaxChunks : forwarded[c][g][i].threw
    /\ loops[c][g] = 0
    /\ heap[c][g].audioQueue = <<>>
    /\ ~heap[c][g].isProcessing

(***************************************************************************)
(* SpecTransform: VoiceTransformer.transform on its own                    *)
(***************************************************************************)

InitTransform ==
  /\ InitBridge
  /\ InitMedia(200, "deep_male")
  /\ InitHandlers
  /\ InitTransformer
  /\ apiKey \in BOOLEAN
  /\ trCall = NoCall
  /\ InitClock
  /\ InitBufferAt(DefaultBuffer)
  /\ InitCodec
  /\ InitUtil

NextTransform ==
  \E pcm \in PcmBuffers, preset \in Presets, backend \in BackendAnswers :
    TransformCall(pcm, preset, backend)

SpecTransform == InitTransform /\ [][NextTransform]_vars

\* the call failed: no API key, no voiceId, fetch rejected, or a status that
\* is not a success
TransformFailure(call) ==
  \/ ~apiKey
  \/ Falsy(getVoiceId(call.preset))
  \/ call.backend.kind = "reject"
  \/ ~ResponseOk(call.backend.status)

\* C4: transform never ends in an exception, and with the API key missing,
\* the preset unknown, the network call throwing or a non-success status it
\* returns the input buffer.
C4_TransformNeverThrows ==
  trCall.called =>
    /\ ~trCall.result.threw
    /\ TransformFailure(trCall) => trCall.result.value = trCall.pcm

\* the backend was called with a non-empty buffer and failed (fetch rejected
\* or a non-success status), and the input came back
C4_Witness ==
  /\ trCall.called
  /\ CallsBackend(apiKey, trCall.preset)
  /\ trCall.pcm # <<>>
  /\ callSpeechToSpeechAPI(trCall.backend).threw
  /\ trCall.result.value = trCall.pcm

\* C5: a successful backend call that yields an empty result
\* is treated as a failure, and transform returns the non-empty input.
C5_EmptyResultReturnsInput ==
  ( /\ trCall.called
    /\ CallsBackend(apiKey, trCall.preset)
    /\ trCall.backend.kind = "response"
    /\ ResponseOk(trCall.backend.status)
    /\ trCall.backend.body = <<>>
    /\ trCall.pcm # <<>> )
  => trCall.result.value = trCall.pcm

(***************************************************************************)
(* SpecBuffer: one AudioBuffer under any sequence of its operations        *)
(***************************************************************************)

\* chunks pending at once, and bytes pushed in total
MaxPushes == 3

\* ms around the start and around the deadline at which the clock is read
MaxOverrun == 1

\* The instants at which handlers run: the first ms, and the ms around the
\* deadline maxMs of a buffer that got its first chunk in one of them.
Instants(maxMs) ==
  (1..(1 + MaxOverrun)) \cup (maxMs..(maxMs + 1 + MaxOverrun))

BufBytes == {0, 255}

\* the chunks a caller pushes: empty, one byte, two bytes
BufChunks == UNION {[1..n -> BufBytes] : n \in {0, 1}} \cup {<<0, 255>>}

\* (targetMs, sampleRate) given to the constructor
BufferConfigs ==
  {AudioBufferNew(2, 1000), DefaultBuffer}

\* the clock advances to a later instant t
Tick(t) ==
  /\ t > now
  /\ now' = t
  /\ UNCHANGED <<bridgeVars, client, sent, tw, vtVars, trCall, abVars, mediaVars, lastCall, codecVars, utilVars>>

BufPush(chunk) ==
  /\ Len(abPushed) + Len(chunk) <= MaxPushes
  /\ Len(ab.chunks) < MaxPushes
  /\ ab' = AudioBufferPush(ab, chunk, now)
  /\ abPushed' = abPushed \o chunk
  /\ abLast' = [op |-> "push", pre |-> ab, ret |-> NullBuffer,
                firstAt |-> IF abLast.op = "push" THEN abLast.firstAt ELSE now]
  /\ UNCHANGED <<bridgeVars, client, sent, tw, vtVars, trCall, clockVars, abFlushed, mediaVars, lastCall, codecVars, utilVars>>

BufFlush ==
  /\ LET f == AudioBufferFlush(ab) IN
       /\ ab' = f.buffer
       /\ abFlushed' = abFlushed \o f.result.bytes
       /\ abLast' = [op |-> "flush", pre |-> ab, ret |-> f.result, firstAt |-> 0]
  /\ UNCHANGED <<bridgeVars, client, sent, tw, vtVars, trCall, clockVars, abPushed, mediaVars, lastCall, codecVars, utilVars>>

InitBuffer ==
  /\ InitBridge
  /\ InitMedia(200, "deep_male")
  /\ InitHandlers
  /\ InitTransformer
  /\ apiKey = TRUE
  /\ trCall = NoCall
  /\ InitClock
  /\ \E b \in BufferConfigs : InitBufferAt(b)
  /\ InitCodec
  /\ InitUtil

NextBuffer ==
  \/ \E t \in Instants(ab.maxMs) : Tick(t)
  \/ \E chunk \in BufChunks : BufPush(chunk)
  \/ BufFlush

SpecBuffer == InitBuffer /\ [][NextBuffer]_vars

\* C6: the bytes flush has returned so far, followed by the pending chunks,
\* are the pushed bytes in push order; a flush of pending chunks returns
\* their concatenation and resets chunks, totalBytes and firstChunkTime in
\* that step; a flush of an empty buffer returns null and changes nothing.
C6_FlushPreservesBytes ==
  /\ abFlushed \o Concat(ab.chunks) = abPushed
  /\ abLast.op = "flush" =>
       IF abLast.pre.chunks = <<>>
       THEN abLast.ret.isNull /\ ab = abLast.pre
       ELSE /\ ~abLast.ret.isNull
            /\ abLast.ret.bytes = Concat(abLast.pre.chunks)
            /\ ab.chunks = <<>> /\ ab.totalBytes = 0 /\ ab.firstChunkTime = 0

\* flush has returned the bytes of several chunks, two of them different,
\* and a chunk pushed since is pending
C6_Witness ==
  /\ Len(abFlushed) >= 2
  /\ abFlushed # abPushed
  /\ abLast.op = "push"
  /\ \E i \in 1..Len(abFlushed) : \E j \in 1..Len(abFlushed) : abFlushed[i] # abFlushed[j]

\* the bytes pushed since the last flush, in push order
PendingBytes == SubSeq(abPushed, Len(abFlushed) + 1, Len(abPushed))

\* maxMs or more have passed since the first push after the last flush
DeadlinePassed ==
  abLast.firstAt # 0 /\ now - abLast.firstAt >= ab.maxMs

\* C16: when at least one byte and fewer than targetBytes are pending and
\* maxMs or more have passed since the first chunk pushed after the last
\* flush, isReady() is true and flush() returns exactly the bytes pushed
\* since the last flush.
C16_DeadlineFlush ==
  (Len(PendingBytes) >= 1 /\ Len(PendingBytes) < ab.targetBytes /\ DeadlinePassed)
    => /\ AudioBufferIsReady(ab, now)
       /\ ~AudioBufferFlush(ab).result.isNull
       /\ AudioBufferFlush(ab).result.bytes = PendingBytes

\* two chunks below the target are pending and exactly maxMs have passed
\* since the first of them was pushed
C16_Witness ==
  /\ Len(ab.chunks) >= 2
  /\ Len(PendingBytes) >= 1
  /\ Len(PendingBytes) < ab.targetBytes
  /\ abLast.firstAt # 0
  /\ now - abLast.firstAt = ab.maxMs
  /\ AudioBufferIsReady(ab, now)

\* C17: isReady() is true exactly when the pending bytes are at least
\* targetBytes, or at least one byte is pending and maxMs or more have
\* passed since the first pending chunk.
C17_IsReadyExact ==
  AudioBufferIsReady(ab, now)
    <=> \/ Len(PendingBytes) >= ab.targetBytes
        \/ Len(PendingBytes) >= 1 /\ DeadlinePassed

\* the last push took the pending bytes from below targetBytes to exactly
\* targetBytes before the deadline, and isReady() is true
C17_Witness ==
  /\ abLast.op = "push"
  /\ abLast.pre.totalBytes < ab.targetBytes
  /\ ~AudioBufferIsReady(abLast.pre, now)
  /\ Len(PendingBytes) = ab.targetBytes
  /\ ~DeadlinePassed
  /\ AudioBufferIsReady(ab, now)

(***************************************************************************)
(* SpecBufferOps: one AudioBuffer of any target under push, flush, peek,   *)
(* clear and adjustTarget                                                  *)
(***************************************************************************)

\* the targetMs given to the constructor: below the floor of minMs, at it,
\* the default
BufTargets == {50, 100, 200}

\* the arguments of adjustTarget: below every minMs, between the bounds or
\* at maxMs, above every maxMs
AdjustTargets == {0, 200, 301}

InitBufferOps ==
  /\ InitBridge
  /\ InitMedia(200, "deep_male")
  /\ InitHandlers
  /\ InitTransformer
  /\ apiKey = TRUE
  /\ trCall = NoCall
  /\ InitClock
  /\ \E targetMs \in BufTargets : InitBufferAt(AudioBufferNew(targetMs, SAMPLE_RATE_TWILIO))
  /\ InitCodec
  /\ InitUtil

BufPeek ==
  /\ abLast' = [op |-> "peek", pre |-> ab, ret |-> AudioBufferPeek(ab), firstAt |-> abLast.firstAt]
  /\ UNCHANGED <<bridgeVars, client, sent, tw, vtVars, trCall, clockVars, ab, abPushed, abFlushed, mediaVars, lastCall, codecVars, utilVars>>

BufClear ==
  /\ ab' = AudioBufferClear(ab)
  /\ abLast' = [op |-> "clear", pre |-> ab, ret |-> NullBuffer, firstAt |-> 0]
  /\ UNCHANGED <<bridgeVars, client, sent, tw, vtVars, trCall, clockVars, abPushed, abFlushed, mediaVars, lastCall, codecVars, utilVars>>

BufAdjustTarget(newTargetMs) ==
  /\ ab' = AudioBufferAdjustTarget(ab, newTargetMs)
  /\ abLast' = [op |-> "adjustTarget", pre |-> ab, ret |-> NullBuffer, firstAt |-> abLast.firstAt]
  /\ UNCHANGED <<bridgeVars, client, sent, tw, vtVars, trCall, clockVars, abPushed, abFlushed, mediaVars, lastCall, codecVars, utilVars>>

NextBufferOps ==
  \/ \E t \in {2} : Tick(t)
  \/ \E chunk \in BufChunks : BufPush(chunk)
  \/ BufFlush
  \/ BufPeek
  \/ BufClear
  \/ \E newTargetMs \in AdjustTargets : BufAdjustTarget(newTargetMs)

SpecBufferOps == InitBufferOps /\ [][NextBufferOps]_vars

\* the targetMs the buffer was constructed with: no operation assigns
\* maxMs, which the constructor sets to targetMs + 100
ConstructedTargetMs == ab.maxMs - 100

\* minMs <= targetMs <= maxMs, with the constructor's minMs and maxMs, and
\* targetBytes derived from targetMs
TargetWithinBounds ==
  /\ ConstructedTargetMs \in BufTargets
  /\ ab.minMs = MaxOf(100, ConstructedTargetMs - 50)
  /\ ab.minMs <= ab.targetMs
  /\ ab.targetMs <= ab.maxMs
  /\ ab.targetBytes * 1000 >= ab.targetMs * ab.sampleRate
  /\ (ab.targetBytes - 1) * 1000 < ab.targetMs * ab.sampleRate

\* C33 as claimed: whatever targetMs the buffer was constructed with
C33_TargetWithinBoundsAnyTarget ==
  TargetWithinBounds

\* C33: in every state of an AudioBuffer constructed with a targetMs of
\* 100 or more, under push, flush, peek, clear and adjustTarget,
\* minMs <= targetMs <= maxMs with minMs = max(100, initial target - 50)
\* and maxMs = initial target + 100, and
\* targetBytes = ceil(targetMs * sampleRate / 1000).
C33_TargetWithinBounds ==
  /\ ConstructedTargetMs \in BufTargets
  /\ ConstructedTargetMs >= 100 => TargetWithinBounds

\* adjustTarget was called with a value above maxMs on a buffer with a
\* pending chunk and has set targetMs to maxMs
C33_Witness ==
  /\ abLast.op = "adjustTarget"
  /\ abLast.pre.targetMs < ab.maxMs
  /\ ab.targetMs = ab.maxMs
  /\ ab.maxMs >= 200
  /\ Len(ab.chunks) >= 1

\* C34: in every state of an AudioBuffer totalBytes is the sum of the
\* lengths of the pending chunks and firstChunkTime is set exactly when a
\* chunk is pending; peek() returns what flush() would return on the same
\* buffer and leaves the buffer as it was.
C34_PendingStateConsistent ==
  /\ ab.totalBytes = Len(Concat(ab.chunks))
  /\ ab.firstChunkTime # 0 <=> Len(ab.chunks) > 0
  /\ abLast.op = "peek" =>
       /\ ab = abLast.pre
       /\ abLast.ret = AudioBufferFlush(abLast.pre).result

\* after a flush and a clear, peek has returned the bytes of two pending
\* chunks
C34_Witness ==
  /\ abLast.op = "peek"
  /\ Len(ab.chunks) >= 2
  /\ abLast.ret.bytes = Concat(ab.chunks)
  /\ Len(abFlushed) >= 1
  /\ Len(abPushed) > Len(abFlushed) + ab.totalBytes

(***************************************************************************)
(* SpecMedia: the Twilio handlers of several calls and their pipeline      *)
(***************************************************************************)

\* deadline periods of the buffer the clock runs through
MaxDeadlines == 1

\* AUDIO_BUFFER_MS set to 1, or unset
BufferMsSettings == {1, 200}

\* payloads of 'media' events: one byte, and eight bytes, the target of a
\* buffer of 1 ms
MediaPayloads == {<<255>>, <<255, 0, 127, 128, 255, 0, 127, 128>>}

\* what the backend answers to a request of the pipeline
MediaBackendAnswers ==
  {NoAnswer}
    \cup [kind : {"response"}, status : {200}, body : {<<>>, <<0, 16, 0, 16>>}]
    \cup [kind : {"response"}, status : {500}, body : {<<>>}]

\* the API key and the preset of the calls: transform reaches the backend,
\* has no key, or has no voiceId
MediaConfigs ==
  {[apiKey |-> TRUE, preset |-> "deep_male"],
   [apiKey |-> FALSE, preset |-> "deep_male"],
   [apiKey |-> TRUE, preset |-> "custom"]}

\* the first ms and the ms around each deadline of a buffer of maxMs
MediaInstants(maxMs) ==
  UNION {{k * maxMs, k * maxMs + 1} : k \in 0..MaxDeadlines} \ {0}

\* Time passes while some handler's buffer holds pending bytes: the clock
\* is only read by push and isReady, and only the time elapsed since the
\* first pending chunk matters to them.
MediaTick(t) ==
  /\ \E c \in CallIds : tw[c].sock = "open" /\ tw[c].audioBuffer.firstChunkTime # 0
  /\ Tick(t)

InitMediaSpec ==
  /\ InitBridge
  /\ \E bufferMs \in BufferMsSettings, config \in MediaConfigs :
       /\ InitMedia(bufferMs, config.preset)
       /\ apiKey = config.apiKey
  /\ InitHandlers
  /\ InitTransformer
  /\ trCall = NoCall
  /\ InitClock
  /\ InitBufferAt(DefaultBuffer)
  /\ InitCodec
  /\ InitUtil

NextMedia ==
  \/ \E c \in CallIds : TwilioOpen(c)
  \/ \E c \in CallIds : TwilioConnected(c)
  \/ \E c \in CallIds, sid \in StreamSids : TwilioStart(c, sid)
  \/ \E c \in CallIds : TwilioStop(c)
  \/ \E c \in CallIds : TwilioClose(c)
  \/ \E c \in CallIds, payload \in MediaPayloads : TwilioMedia(c, payload)
  \/ \E c \in CallIds, flush \in 1..MaxMedia, backend \in MediaBackendAnswers :
       TransformReturn(c, flush, backend)
  \/ \E t \in MediaInstants(BUFFER_MS + 100) : MediaTick(t)

SpecMedia == InitMediaSpec /\ [][NextMedia]_vars

\* C3: the media messages sent for a call are in the order of the flushes
\* they derive from: a message sent later derives from a later flush.
C3_EmitInFlushOrder ==
  \A c \in CallIds :
    \A i \in 1..Len(emitted[c]) : \A j \in 1..Len(emitted[c]) :
      i < j => emitted[c][i].flush < emitted[c][j].flush

\* Time passes and the backend answers every request; Twilio is free to send
\* no further event.
FairMedia ==
  /\ WF_vars(\E t \in MediaInstants(BUFFER_MS + 100) : MediaTick(t))
  /\ \A c \in CallIds :
       WF_vars(\E flush \in 1..MaxMedia, backend \in MediaBackendAnswers :
                 TransformReturn(c, flush, backend))

SpecMediaLive == InitMediaSpec /\ [][NextMedia]_vars /\ FairMedia

\* the stream of call c is connected and started and its socket is open
StreamActive(c) ==
  tw[c].sock = "open" /\ tw[c].isConnected /\ tw[c].streamSid # NoSid

\* bytes are pending in the buffer of call c and maxMs or more have passed
\* since the first of them was pushed
DeadlineReached(c) ==
  /\ tw[c].audioBuffer.totalBytes > 0
  /\ tw[c].audioBuffer.firstChunkTime # 0
  /\ now - tw[c].audioBuffer.firstChunkTime >= tw[c].audioBuffer.maxMs

\* C18: when the stream is connected and started and pending bytes have
\* reached their deadline, they are flushed, unless the stream ends first,
\* also when Twilio sends no further 'media' event.
C18_DeadlineFlushWithoutMedia ==
  \A c \in CallIds :
    (StreamActive(c) /\ DeadlineReached(c))
      ~> (tw[c].audioBuffer.totalBytes = 0 \/ ~StreamActive(c))

\* C14: once the 'stop' event of a call has been handled, no media message
\* is sent on that call's socket any more; the result of a transform call
\* that was in flight is discarded.
C14_NoEmitAfterStop ==
  [][\A c \in CallIds : tw[c].stopped => emitted'[c] = emitted[c]]_vars

\* a 'media' event arrives while a transform call is outstanding
MediaDuringTransform ==
  /\ mediaSent' = mediaSent + 1
  /\ \E c \in CallIds : inflight[c] # {}

StreamStarted(c) ==
  tw[c].isConnected /\ tw[c].streamSid # NoSid

\* a 'media' event of call c is handled while its stream is not started
MediaBeforeStart(c) ==
  /\ mediaSent' = mediaSent + 1
  /\ lastCall' = c
  /\ ~StreamStarted(c)

\* C32: no media message is sent on a Twilio socket before both 'connected'
\* and 'start' have been received: the buffer is flushed only while the
\* stream is started, every message derives from a flush and carries the
\* streamSid of 'start'; a payload received while the stream is not started
\* is added to the pending chunks and nothing is flushed.
C32_NoMediaBeforeStart ==
  /\ [](\A c \in CallIds : \A i \in 1..Len(emitted[c]) :
         /\ emitted[c][i].flush \in 1..flushes[c]
         /\ emitted[c][i].streamSid # NoSid
         /\ emitted[c][i].streamSid = tw[c].streamSid)
  /\ [](\A c \in CallIds : tw[c].streamSid = NoSid => flushes[c] = 0)
  /\ [][\A c \in CallIds :
          /\ flushes'[c] # flushes[c] => StreamStarted(c)
          /\ MediaBeforeStart(c) =>
               /\ flushes'[c] = flushes[c]
               /\ Len(tw'[c].audioBuffer.chunks) = Len(tw[c].audioBuffer.chunks) + 1
               /\ IsPrefix(tw[c].audioBuffer.chunks, tw'[c].audioBuffer.chunks)
               /\ tw'[c].audioBuffer.totalBytes > tw[c].audioBuffer.totalBytes]_vars

\* a payload of eight bytes, which fills a buffer of 1 ms, arrived before
\* 'start' and stayed pending; the first 'media' event after 'start' flushed
\* it together with its own payload and the message was sent
C32_Witness ==
  \E c \in CallIds :
    /\ BUFFER_MS = 1
    /\ StreamStarted(c)
    /\ Len(emitted[c]) = 1
    /\ Len(emitted[c][1].chunk) >= 9
    /\ emitted[c][1].chunk[2] = 0
    /\ emitted[c][1].streamSid = tw[c].streamSid

\* the stream of call c was initialized by 'start' and a 'stop' or 'close'
\* event has called closeStream since
StreamClosed(c) ==
  tw[c].streamSid # NoSid /\ (tw[c].stopped \/ tw[c].sock = "closed")

\* C37: the closeStream calls that follow the initializeStream of a call,
\* from 'stop' and from 'close', count the call once and remove its entry:
\* callCount is the number of calls whose initialized stream has been
\* closed, activeStreams holds the calls initialized and not yet closed,
\* and a closeStream step that removes no entry leaves callCount as it was.
C37_CloseCountsOnce ==
  /\ [](callCount = Cardinality({c \in CallIds : StreamClosed(c)}))
  /\ [](vtStreams = {c \in CallIds : tw[c].streamSid # NoSid /\ ~StreamClosed(c)})
  /\ [][callCount' = callCount + Cardinality(vtStreams \ vtStreams')]_vars

\* both calls were started; one got 'stop' and then 'close', the other
\* 'close' alone, and each was counted once
C37_Witness ==
  /\ callCount = Cardinality(CallIds)
  /\ vtStreams = {}
  /\ \E c \in CallIds : tw[c].stopped /\ tw[c].sock = "closed"
  /\ \E c \in CallIds : ~tw[c].stopped /\ tw[c].sock = "closed"

(***************************************************************************)
(* SpecMediaFailing: the pipeline with a backend that fails every request  *)
(***************************************************************************)

\* the answers that make callSpeechToSpeechAPI throw
FailingAnswers ==
  {backend \in MediaBackendAnswers : callSpeechToSpeechAPI(backend).threw}

NextMediaFailing ==
  \/ \E c \in CallIds : TwilioOpen(c)
  \/ \E c \in CallIds : TwilioConnected(c)
  \/ \E c \in CallIds, sid \in StreamSids : TwilioStart(c, sid)
  \/ \E c \in CallIds : TwilioStop(c)
  \/ \E c \in CallIds : TwilioClose(c)
  \/ \E c \in CallIds, payload \in MediaPayloads : TwilioMedia(c, payload)
  \/ \E c \in CallIds, flush \in 1..MaxMedia, backend \in FailingAnswers :
       TransformReturn(c, flush, backend)
  \/ \E t \in MediaInstants(BUFFER_MS + 100) : MediaTick(t)

SpecMediaFailing == InitMediaSpec /\ [][NextMediaFailing]_vars

\* the payload of a chunk that passes through untransformed
PassThroughPayload(chunk) ==
  mulawEncode(
    resample(
      resample(mulawDecode(chunk), SAMPLE_RATE_TWILIO, SAMPLE_RATE_ELEVENLABS),
      SAMPLE_RATE_ELEVENLABS, SAMPLE_RATE_TWILIO))

\* C19: when every transform call fails, each flushed chunk of a call whose
\* socket is open is either still with the transform or has produced exactly
\* one media message, and the payload of every message is
\* mulawEncode(resample 16k->8k (resample 8k->16k (mulawDecode(chunk)))).
C19_PassThroughOnFailure ==
  \A c \in CallIds :
    /\ \A i \in 1..Len(emitted[c]) :
         /\ emitted[c][i].payload = PassThroughPayload(emitted[c][i].chunk)
         /\ \A j \in 1..Len(emitted[c]) :
              emitted[c][i].flush = emitted[c][j].flush => i = j
    /\ tw[c].sock = "open" =>
         Len(emitted[c]) + Cardinality(inflight[c]) = flushes[c]

\* the backend failed the request for a chunk of eight bytes and the chunk
\* has been sent on
C19_Witness ==
  \E c \in CallIds :
    /\ CallsBackend(apiKey, twPreset[c])
    /\ flushes[c] >= 1
    /\ inflight[c] = {}
    /\ \E i \in 1..Len(emitted[c]) :
         /\ Len(emitted[c][i].chunk) = 8
         /\ Len(emitted[c][i].payload) = 8

(***************************************************************************)
(* SpecCodec: a PCM buffer encoded to mu-law and decoded again, as Test 1  *)
(* of src/unnamed/part_009 does for each sample of its sine wave           *)
(***************************************************************************)

\* the amplitude of the test's sine wave
TestAmplitude == 16000

\* pcmBuffer.writeInt16LE(sample, i * 2): the buffers of one sample
CodecInputs ==
  {WriteInt16LE(sample) : sample \in (-TestAmplitude)..TestAmplitude}

InitCodecSpec ==
  /\ InitBridge
  /\ InitMedia(200, "deep_male")
  /\ InitHandlers
  /\ InitTransformer
  /\ apiKey = TRUE
  /\ trCall = NoCall
  /\ InitClock
  /\ InitBufferAt(DefaultBuffer)
  /\ InitUtil
  /\ \E pcmBuffer \in CodecInputs :
       codecCall = [stage |-> "input", pcm |-> pcmBuffer, mulaw |-> <<>>, decoded |-> <<>>]

\* const mulawBuffer = mulawEncode(pcmBuffer)
CodecEncode ==
  /\ codecCall.stage = "input"
  /\ codecCall' = [codecCall EXCEPT !.stage = "encoded", !.mulaw = mulawEncode(codecCall.pcm)]
  /\ UNCHANGED <<bridgeVars, client, sent, tw, vtVars, trCall, clockVars, abVars, mediaVars, lastCall, utilVars>>

\* const decodedPcm = mulawDecode(mulawBuffer)
CodecDecode ==
  /\ codecCall.stage = "encoded"
  /\ codecCall' = [codecCall EXCEPT !.stage = "decoded", !.decoded = mulawDecode(codecCall.mulaw)]
  /\ UNCHANGED <<bridgeVars, client, sent, tw, vtVars, trCall, clockVars, abVars, mediaVars, lastCall, utilVars>>

NextCodec ==
  \/ CodecEncode
  \/ CodecDecode

SpecCodec == InitCodecSpec /\ [][NextCodec]_vars

Abs(x) == IF x < 0 THEN -x ELSE x

\* Math.abs(original - decoded) of sample i, counted from 0
RoundTripError(i) ==
  Abs(ReadInt16LE(codecCall.pcm, i * 2) - ReadInt16LE(codecCall.decoded, i * 2))

\* C20: for every 16-bit sample x with |x| <= 16000, the sample
\* mulawDecode(mulawEncode(x)) differs from x by less than 1000.
C20_RoundTripWithin1000 ==
  codecCall.stage = "decoded" =>
    /\ Len(codecCall.decoded) = Len(codecCall.pcm)
    /\ \A i \in 0..(Len(codecCall.pcm) \div 2 - 1) : RoundTripError(i) < 1000

(***************************************************************************)
(* SpecMulaw: a mu-law byte decoded to PCM and encoded again, as the       *)
(* pipeline does with audio it passes through untransformed                *)
(***************************************************************************)

\* the payloads of one byte
MulawBytes == {<<b>> : b \in 0..255}

\* the negative-zero code: it decodes to the sample 0, like 0xFF
NegativeZero == <<127>>

InitMulawSpec ==
  /\ InitBridge
  /\ InitMedia(200, "deep_male")
  /\ InitHandlers
  /\ InitTransformer
  /\ apiKey = TRUE
  /\ trCall = NoCall
  /\ InitClock
  /\ InitBufferAt(DefaultBuffer)
  /\ InitUtil
  /\ \E chunk \in MulawBytes :
       codecCall = [stage |-> "received", mulaw |-> chunk, pcm |-> <<>>, reencoded |-> <<>>]

\* const pcmBuffer = mulawDecode(chunk)
MulawDecodeReceived ==
  /\ codecCall.stage = "received"
  /\ codecCall' = [codecCall EXCEPT !.stage = "pcm", !.pcm = mulawDecode(codecCall.mulaw)]
  /\ UNCHANGED <<bridgeVars, client, sent, tw, vtVars, trCall, clockVars, abVars, mediaVars, lastCall, utilVars>>

\* const mulawOutput = mulawEncode(outputPcm)
MulawEncodeOutput ==
  /\ codecCall.stage = "pcm"
  /\ codecCall' = [codecCall EXCEPT !.stage = "reencoded", !.reencoded = mulawEncode(codecCall.pcm)]
  /\ UNCHANGED <<bridgeVars, client, sent, tw, vtVars, trCall, clockVars, abVars, mediaVars, lastCall, utilVars>>

NextMulaw ==
  \/ MulawDecodeReceived
  \/ MulawEncodeOutput

SpecMulaw == InitMulawSpec /\ [][NextMulaw]_vars

\* C39: for every mu-law byte b other than the negative-zero code 0x7F,
\* mulawEncode(mulawDecode([b])) = [b].
C39_ByteRoundTrip ==
  (codecCall.stage = "reencoded" /\ codecCall.mulaw # NegativeZero)
    => codecCall.reencoded = codecCall.mulaw

(***************************************************************************)
(* SpecResample: a buffer resampled from one rate to another and back      *)
(* (src/unnamed/part_007 resample, lines 393-401: the output length)       *)
(***************************************************************************)

MaxRate == 6
MaxSamples == 12

\* small rates for every ratio up to MaxRate, and rates of telephony and of
\* audio hardware
ResampleRates == (1..MaxRate) \cup {8000, 16000, 44100, 48000}

InitResampleSpec ==
  /\ InitBridge
  /\ InitMedia(200, "deep_male")
  /\ InitHandlers
  /\ InitTransformer
  /\ apiKey = TRUE
  /\ trCall = NoCall
  /\ InitClock
  /\ InitBufferAt(DefaultBuffer)
  /\ InitCodec
  /\ InitPcmCall
  /\ InitTracker
  /\ InitJitter
  /\ InitSliding
  /\ \E inputSamples \in 0..MaxSamples, fromRate \in ResampleRates, toRate \in ResampleRates :
       /\ fromRate # toRate
       /\ rsCall = [stage |-> "input", inputSamples |-> inputSamples,
                    fromRate |-> fromRate, toRate |-> toRate, forth |-> 0, back |-> 0]

\* resample(x, R1, R2)
ResampleForth ==
  /\ rsCall.stage = "input"
  /\ rsCall' = [rsCall EXCEPT
                  !.stage = "forth",
                  !.forth = resampleOutputSamples(rsCall.inputSamples, rsCall.fromRate, rsCall.toRate)]
  /\ UNCHANGED <<coreVars, pcmCall, ltVars, jbVars, sbVars>>

\* resample(resample(x, R1, R2), R2, R1)
ResampleBack ==
  /\ rsCall.stage = "forth"
  /\ rsCall' = [rsCall EXCEPT
                  !.stage = "back",
                  !.back = resampleOutputSamples(rsCall.forth, rsCall.toRate, rsCall.fromRate)]
  /\ UNCHANGED <<coreVars, pcmCall, ltVars, jbVars, sbVars>>

NextResample ==
  \/ ResampleForth
  \/ ResampleBack

SpecResample == InitResampleSpec /\ [][NextResample]_vars

\* C21 as stated: for any integer rates R1 # R2 and any N, the length of
\* resample(resample(x, R1, R2), R2, R1) is within 2 samples of N.
C21_RoundTripLengthAnyRates ==
  rsCall.stage = "back" =>
    /\ rsCall.back >= rsCall.inputSamples - 2
    /\ rsCall.back <= rsCall.inputSamples + 2

\* C21, amended: for integer rates R1 # R2 with R1 <= 2 * R2 and any N, the
\* length of resample(resample(x, R1, R2), R2, R1) is within 2 samples of N.
C21_RoundTripLength ==
  (rsCall.stage = "back" /\ rsCall.fromRate <= 2 * rsCall.toRate) =>
    /\ rsCall.back >= rsCall.inputSamples - 2
    /\ rsCall.back <= rsCall.inputSamples + 2

\* a round trip that starts by downsampling and loses exactly two samples
C21_Witness ==
  /\ rsCall.stage = "back"
  /\ rsCall.fromRate > rsCall.toRate
  /\ rsCall.fromRate <= 2 * rsCall.toRate
  /\ rsCall.inputSamples > 2
  /\ rsCall.back = rsCall.inputSamples - 2

(***************************************************************************)
(* SpecPcm: the 16-bit PCM operations of src/unnamed/part_007 called on    *)
(* buffers of any byte count                                               *)
(***************************************************************************)

MaxPcmBytes == 3

PcmByteValues == {0, 1, 128, 255}

PcmInputs == UNION {[1..n -> PcmByteValues] : n \in 0..MaxPcmBytes}

InitPcmSpec ==
  /\ InitBridge
  /\ InitMedia(200, "deep_male")
  /\ InitHandlers
  /\ InitTransformer
  /\ apiKey = TRUE
  /\ trCall = NoCall
  /\ InitClock
  /\ InitBufferAt(DefaultBuffer)
  /\ InitCodec
  /\ InitUtil

\* none of the three operations has a throw statement, and the reads they
\* make stay below 2 * Math.floor(length / 2)
PcmEncode(pcmBuffer) ==
  /\ pcmCall' = [op |-> "mulawEncode", pcm |-> pcmBuffer, threw |-> FALSE,
                 result |-> mulawEncode(pcmBuffer)]
  /\ UNCHANGED <<coreVars, rsCall, ltVars, jbVars, sbVars>>

PcmResample(pcmBuffer, fromRate, toRate) ==
  /\ pcmCall' = [op |-> "resample", pcm |-> pcmBuffer, threw |-> FALSE,
                 result |-> resample(pcmBuffer, fromRate, toRate)]
  /\ UNCHANGED <<coreVars, rsCall, ltVars, jbVars, sbVars>>

PcmRMS(pcmBuffer) ==
  /\ pcmCall' = [op |-> "calculateRMS", pcm |-> pcmBuffer, threw |-> FALSE,
                 result |-> calculateRMS(pcmBuffer)]
  /\ UNCHANGED <<coreVars, rsCall, ltVars, jbVars, sbVars>>

NextPcm ==
  \/ \E pcmBuffer \in PcmInputs : PcmEncode(pcmBuffer)
  \/ \E pcmBuffer \in PcmInputs :
       \/ PcmResample(pcmBuffer, SAMPLE_RATE_TWILIO, SAMPLE_RATE_ELEVENLABS)
       \/ PcmResample(pcmBuffer, SAMPLE_RATE_ELEVENLABS, SAMPLE_RATE_TWILIO)
  \/ \E pcmBuffer \in PcmInputs : PcmRMS(pcmBuffer)

SpecPcm == InitPcmSpec /\ [][NextPcm]_vars

\* C22: mulawEncode, resample and calculateRMS reject a buffer with an odd
\* byte count with an error; they never return a result computed from the
\* buffer with its trailing byte ignored.
C22_OddLengthRejected ==
  (pcmCall.op # "none" /\ Len(pcmCall.pcm) % 2 = 1) => pcmCall.threw

(***************************************************************************)
(* SpecTracker: a LatencyTracker under record, reset and the queries       *)
(***************************************************************************)

MaxWindow == 2
MaxRecords == 4

WindowSizes == 1..MaxWindow

\* durations in ms, as Date.now() differences are: whole numbers
LatencySamples == {1, 300, 500}

InitTrackerSpec ==
  /\ InitBridge
  /\ InitMedia(200, "deep_male")
  /\ InitHandlers
  /\ InitTransformer
  /\ apiKey = TRUE
  /\ trCall = NoCall
  /\ InitClock
  /\ InitBufferAt(DefaultBuffer)
  /\ InitCodec
  /\ InitResampleCall
  /\ InitPcmCall
  /\ InitJitter
  /\ InitSliding
  /\ \E windowSize \in WindowSizes : lt = LatencyTrackerNew(windowSize)
  /\ ltLog = <<>>
  /\ ltCalls = 0
  /\ ltLast = [op |-> "new", arg |-> "", ret |-> NoReturn]
  /\ ltMeasure = NoMeasure

LtRecord(ms, stageArg) ==
  /\ ltCalls < MaxRecords
  /\ lt' = LatencyTrackerRecord(lt, ms, stageArg)
  /\ ltLog' = Append(ltLog, [ms |-> ms,
                             stage |-> IF stageArg = "undefined" THEN "total" ELSE stageArg])
  /\ ltCalls' = ltCalls + 1
  /\ ltLast' = [op |-> "record", arg |-> stageArg, ret |-> NoReturn]
  /\ UNCHANGED <<coreVars, rsCall, pcmCall, jbVars, sbVars, ltMeasure>>

LtReset ==
  /\ lt' = LatencyTrackerReset(lt)
  /\ ltLog' = <<>>
  /\ ltLast' = [op |-> "reset", arg |-> "", ret |-> NoReturn]
  /\ UNCHANGED <<coreVars, rsCall, pcmCall, jbVars, sbVars, ltCalls, ltMeasure>>

LtGetMetrics ==
  /\ ltLast' = [op |-> "getMetrics", arg |-> "", ret |-> LatencyTrackerGetMetrics(lt)]
  /\ UNCHANGED <<coreVars, rsCall, pcmCall, jbVars, sbVars, lt, ltLog, ltCalls, ltMeasure>>

LtGetStageMetrics(stage) ==
  /\ ltLast' = [op |-> "getStageMetrics", arg |-> stage,
                ret |-> LatencyTrackerGetStageMetrics(lt, stage)]
  /\ UNCHANGED <<coreVars, rsCall, pcmCall, jbVars, sbVars, lt, ltLog, ltCalls, ltMeasure>>

LtGetStatus ==
  /\ ltLast' = [op |-> "getStatus", arg |-> "", ret |-> LatencyTrackerGetStatus(lt)]
  /\ UNCHANGED <<coreVars, rsCall, pcmCall, jbVars, sbVars, lt, ltLog, ltCalls, ltMeasure>>

NextTracker ==
  \/ \E ms \in LatencySamples, stageArg \in StageArgs : LtRecord(ms, stageArg)
  \/ LtReset
  \/ LtGetMetrics
  \/ \E stage \in StageNames : LtGetStageMetrics(stage)
  \/ LtGetStatus

SpecTracker == InitTrackerSpec /\ [][NextTracker]_vars

\* the last n elements of a sequence, all of it if it is shorter
LastN(seq, n) ==
  IF Len(seq) <= n THEN seq ELSE SubSeq(seq, Len(seq) - n + 1, Len(seq))

\* the samples recorded since the tracker was made or reset
RecordedMs == [i \in 1..Len(ltLog) |-> ltLog[i].ms]

\* those of them recorded under a stage
StageLogOf(stage) == SelectSeq(ltLog, LAMBDA entry : entry.stage = stage)

RecordedMsOf(stage) == [i \in 1..Len(StageLogOf(stage)) |-> StageLogOf(stage)[i].ms]

RECURSIVE SeqSum(_)
SeqSum(seq) == IF Len(seq) = 0 THEN 0 ELSE Head(seq) + SeqSum(Tail(seq))

\* C23: after any sequence of record calls the global window and every stage
\* window hold at most windowSize samples, and each holds exactly the most
\* recent samples recorded to it, in record order.
C23_WindowsHoldMostRecent ==
  /\ Len(lt.samples) <= lt.windowSize
  /\ lt.samples = LastN(RecordedMs, lt.windowSize)
  /\ \A stage \in StageNames :
       /\ lt.stages[stage].has <=> Len(StageLogOf(stage)) > 0
       /\ Len(lt.stages[stage].samples) <= lt.windowSize
       /\ lt.stages[stage].samples = LastN(RecordedMsOf(stage), lt.windowSize)

\* both stages have samples, and a stage window has lost its oldest sample
\* while the other stage has not filled its own
C23_Witness ==
  /\ Len(StageLogOf("transform")) > lt.windowSize
  /\ Len(StageLogOf("total")) >= 1
  /\ Len(StageLogOf("total")) < lt.windowSize
  /\ Head(lt.stages["transform"].samples) # Head(RecordedMsOf("transform"))

\* a is Math.round(sum / n): the whole number with a - 1/2 <= sum / n < a + 1/2
IsRoundedAverage(a, sum, n) ==
  /\ 2 * a * n <= 2 * sum + n
  /\ 2 * sum + n < 2 * (a + 1) * n

\* C24: after any sequence of record and reset calls runningSum is the sum
\* of the samples in the global window and each stage's sum is the sum of
\* the samples in its window, and the average reported is
\* round(sum / window length) of the current window.
C24_SumsMatchWindows ==
  /\ lt.runningSum = SeqSum(lt.samples)
  /\ \A stage \in StageNames : lt.stages[stage].sum = SeqSum(lt.stages[stage].samples)
  /\ (ltLast.op = "getMetrics" /\ Len(lt.samples) > 0) =>
       IsRoundedAverage(ltLast.ret.average, SeqSum(lt.samples), Len(lt.samples))
  /\ (ltLast.op = "getStageMetrics" /\ ~ltLast.ret.isNull) =>
       IsRoundedAverage(ltLast.ret.average,
                        SeqSum(lt.stages[ltLast.arg].samples),
                        Len(lt.stages[ltLast.arg].samples))

\* after a reset and an eviction, getMetrics reports an average that had to
\* be rounded
C24_Witness ==
  /\ ltLast.op = "getMetrics"
  /\ ltCalls > Len(ltLog)
  /\ Len(ltLog) > lt.windowSize
  /\ Len(lt.samples) = 2
  /\ SeqSum(lt.samples) % 2 = 1

(***************************************************************************)
(* SpecMeasure: measureAsync calls on one LatencyTracker, overlapping in   *)
(* time                                                                    *)
(***************************************************************************)

\* measureAsync calls made in all
MaxMeasures == 3

\* the last ms at which a call starts or settles
MaxMeasureClock == 2

InitMeasureSpec ==
  /\ InitBridge
  /\ InitMedia(200, "deep_male")
  /\ InitHandlers
  /\ InitTransformer
  /\ apiKey = TRUE
  /\ trCall = NoCall
  /\ InitClock
  /\ InitBufferAt(DefaultBuffer)
  /\ InitCodec
  /\ InitResampleCall
  /\ InitPcmCall
  /\ InitJitter
  /\ InitSliding
  /\ InitTracker

\* measureAsync is called: it reads the clock and awaits fn()
MeasureCall(stageArg) ==
  /\ Cardinality(ltMeasure.pending) + Len(ltMeasure.settled) < MaxMeasures
  /\ ltMeasure' = [ltMeasure EXCEPT !.pending = @ \cup
                     {[id |-> Cardinality(ltMeasure.pending) + Len(ltMeasure.settled) + 1,
                       stageArg |-> stageArg, start |-> now]}]
  /\ UNCHANGED <<coreVars, rsCall, pcmCall, jbVars, sbVars, lt, ltLog, ltCalls, ltLast>>

\* fn settles and the call runs to its end
MeasureSettle(id, outcome) ==
  /\ \E call \in ltMeasure.pending :
       /\ call.id = id
       /\ LET m == measureAsync(lt, call.stageArg, call.start, now, outcome) IN
            /\ lt' = m.tracker
            /\ ltLog' = ltLog \o m.recorded
            /\ ltCalls' = ltCalls + Len(m.recorded)
            /\ ltMeasure' = [pending |-> ltMeasure.pending \ {call},
                             settled |-> Append(ltMeasure.settled,
                               [call |-> call, outcome |-> outcome,
                                threw |-> m.threw, value |-> m.value, duration |-> m.duration,
                                at |-> now])]
  /\ ltLast' = [op |-> "measureAsync", arg |-> "", ret |-> NoReturn]
  /\ UNCHANGED <<coreVars, rsCall, pcmCall, jbVars, sbVars>>

NextMeasure ==
  \/ \E t \in 1..MaxMeasureClock : Tick(t)
  \/ \E stageArg \in MeasuredStageArgs : MeasureCall(stageArg)
  \/ \E id \in 1..MaxMeasures, outcome \in FnOutcomes : MeasureSettle(id, outcome)

SpecMeasure == InitMeasureSpec /\ [][NextMeasure]_vars

\* the stage a settled call is to record under
ExpectedStage(entry) ==
  IF entry.outcome.rejects
  THEN ErrorStage(MeasuredStage(entry.call.stageArg))
  ELSE MeasuredStage(entry.call.stageArg)

\* C38: every measureAsync call that has settled has recorded exactly one
\* sample, its duration, under its stage when fn resolved and under
\* <stage>_error when fn rejected; it returned fn's result in the first
\* case and threw fn's error in the second.
C38_MeasureRecordsOnce ==
  /\ lt.totalSamples = Len(ltMeasure.settled)
  /\ Len(ltLog) = Len(ltMeasure.settled)
  /\ \A i \in 1..Len(ltMeasure.settled) :
       LET entry == ltMeasure.settled[i] IN
         /\ i <= Len(ltLog)
         /\ ltLog[i] = [ms |-> entry.at - entry.call.start, stage |-> ExpectedStage(entry)]
         /\ entry.threw = entry.outcome.rejects
         /\ entry.value = entry.outcome.value
  /\ \A stage \in StageNames :
       (IF lt.stages[stage].has THEN lt.stages[stage].count ELSE 0)
         = Cardinality({i \in 1..Len(ltMeasure.settled) :
                          ExpectedStage(ltMeasure.settled[i]) = stage})

\* of two overlapping calls for the same stage the one that started later
\* resolved first and the other rejected after it, and a third call is
\* awaiting fn
C38_Witness ==
  /\ Len(ltMeasure.settled) = 2
  /\ Cardinality(ltMeasure.pending) = 1
  /\ ltMeasure.settled[1].call.id > ltMeasure.settled[2].call.id
  /\ ~ltMeasure.settled[1].threw
  /\ ltMeasure.settled[2].threw
  /\ ltMeasure.settled[2].value = "error"
  /\ lt.stages["transform"].has /\ lt.stages["transform"].count = 1
  /\ lt.stages["transform_error"].has /\ lt.stages["transform_error"].count = 1
  /\ ltMeasure.settled[2].duration > ltMeasure.settled[1].duration

(***************************************************************************)
(* SpecStatus: a LatencyTracker whose window is long enough for p95 to     *)
(* differ from the maximum (21 samples or more)                            *)
(***************************************************************************)

StatusWindow == 21
MaxOutliers == 3

\* durations around the two thresholds
StatusSamples == {299, 300, 499, 500}

\* the tracker after record(ms) for each ms of a sequence, in order
RECURSIVE TrackerAfter(_, _)
TrackerAfter(t, samples) ==
  IF Len(samples) = 0 THEN t
  ELSE TrackerAfter(LatencyTrackerRecord(t, Head(samples), "undefined"), Tail(samples))

\* what has been recorded at the start: up to MaxOutliers durations at or
\* above a threshold, the largest first, then durations below both
StatusHistories ==
  {outliers \o [i \in 1..(length - Len(outliers)) |-> 299] :
     outliers \in {o \in UNION {[1..j -> StatusSamples \ {299}] : j \in 0..MaxOutliers} :
                     \A i \in 1..(Len(o) - 1) : o[i] >= o[i + 1]},
     length \in (StatusWindow - 2)..StatusWindow}

InitStatusSpec ==
  /\ InitBridge
  /\ InitMedia(200, "deep_male")
  /\ InitHandlers
  /\ InitTransformer
  /\ apiKey = TRUE
  /\ trCall = NoCall
  /\ InitClock
  /\ InitBufferAt(DefaultBuffer)
  /\ InitCodec
  /\ InitResampleCall
  /\ InitPcmCall
  /\ InitJitter
  /\ InitSliding
  /\ \E history \in StatusHistories :
       /\ lt = TrackerAfter(LatencyTrackerNew(StatusWindow), history)
       /\ ltLog = [i \in 1..Len(history) |-> [ms |-> history[i], stage |-> "total"]]
       /\ ltCalls = Len(history)
  /\ ltLast = [op |-> "record", arg |-> "undefined", ret |-> NoReturn]
  /\ ltMeasure = NoMeasure

StatusRecord(ms) ==
  /\ ltCalls < StatusWindow + 1
  /\ lt' = LatencyTrackerRecord(lt, ms, "undefined")
  /\ ltLog' = Append(ltLog, [ms |-> ms, stage |-> "total"])
  /\ ltCalls' = ltCalls + 1
  /\ ltLast' = [op |-> "record", arg |-> "undefined", ret |-> NoReturn]
  /\ UNCHANGED <<coreVars, rsCall, pcmCall, jbVars, sbVars, ltMeasure>>

NextStatus ==
  \/ \E ms \in StatusSamples : StatusRecord(ms)
  \/ LtReset
  \/ LtGetMetrics
  \/ LtGetStatus

SpecStatus == InitStatusSpec /\ [][NextStatus]_vars

\* v is the element at index idx (from 0) of the window in ascending order:
\* at most idx samples are below v, more than idx are at or below v
IsAtSortedIndex(v, idx, samples) ==
  /\ \E i \in 1..Len(samples) : samples[i] = v
  /\ Cardinality({i \in 1..Len(samples) : samples[i] < v}) <= idx
  /\ Cardinality({i \in 1..Len(samples) : samples[i] <= v}) > idx

\* the window's p95: 0 for an empty window
WindowP95 ==
  IF Len(lt.samples) = 0 THEN 0
  ELSE CHOOSE v \in StatusSamples \cup LatencySamples :
         IsAtSortedIndex(v, (19 * Len(lt.samples)) \div 20, lt.samples)

\* C25: getStatus returns 'critical' exactly when the window's p95 is at
\* least criticalThreshold, 'warning' exactly when it is at least
\* warningThreshold and below criticalThreshold, and 'ok' otherwise, also
\* when nothing has been recorded.
C25_StatusClassifiesP95 ==
  ltLast.op = "getStatus" =>
    /\ ltLast.ret \in {"ok", "warning", "critical"}
    /\ ltLast.ret = "critical" <=> WindowP95 >= lt.criticalThreshold
    /\ ltLast.ret = "warning" <=>
         (WindowP95 >= lt.warningThreshold /\ WindowP95 < lt.criticalThreshold)
    /\ Len(lt.samples) = 0 => ltLast.ret = "ok"

\* a full window of 21 samples whose largest is critical and whose p95 is
\* not: the status is 'warning'
C25_Witness ==
  /\ ltLast.op = "getStatus"
  /\ ltLast.ret = "warning"
  /\ Len(lt.samples) = StatusWindow
  /\ Len(ltLog) > StatusWindow
  /\ \E i \in 1..Len(lt.samples) : lt.samples[i] >= lt.criticalThreshold

(***************************************************************************)
(* SpecJitter: a JitterBuffer under push and pop while time passes         *)
(***************************************************************************)

MaxPackets == 3
MaxTimestamp == 2
MaxClock == 5

\* (targetDelayMs, maxDelayMs) given to the constructor
JitterConfigs == {JitterBufferNew(2, 4), JitterBufferNew(0, 3)}

InitJitterSpec ==
  /\ InitBridge
  /\ InitMedia(200, "deep_male")
  /\ InitHandlers
  /\ InitTransformer
  /\ apiKey = TRUE
  /\ trCall = NoCall
  /\ InitClock
  /\ InitBufferAt(DefaultBuffer)
  /\ InitCodec
  /\ InitResampleCall
  /\ InitPcmCall
  /\ InitTracker
  /\ InitSliding
  /\ \E b \in JitterConfigs : InitJitterAt(b)

\* the k-th push carries the one byte k; the clock may move on by elapsed ms
\* between the two Date.now() of push
JbPush(timestamp, elapsed) ==
  /\ Len(jbPushed) < MaxPackets
  /\ now + elapsed <= MaxClock
  /\ LET data == <<Len(jbPushed) + 1>> IN
       /\ jb' = JitterBufferPush(jb, data, timestamp, now, now + elapsed)
       /\ jbPushed' = Append(jbPushed, [data |-> data, timestamp |-> timestamp,
                                        receivedAt |-> now])
  /\ now' = now + elapsed
  /\ jbLast' = [op |-> "push", pre |-> jb, at |-> now + elapsed, ret |-> NullBuffer]
  /\ UNCHANGED jbOut
  /\ UNCHANGED <<bridgeVars, client, sent, tw, vtVars, trCall, abVars, mediaVars, lastCall, codecVars>>
  /\ UNCHANGED <<rsCall, pcmCall, ltVars, sbVars>>

JbPop ==
  /\ LET p == JitterBufferPop(jb, now) IN
       /\ jb' = p.buffer
       /\ jbOut' = IF p.result.isNull THEN jbOut ELSE Append(jbOut, Head(jb.packets))
       /\ jbLast' = [op |-> "pop", pre |-> jb, at |-> now, ret |-> p.result]
  /\ UNCHANGED jbPushed
  /\ UNCHANGED <<coreVars, rsCall, pcmCall, ltVars, sbVars>>

NextJitter ==
  \/ \E t \in 1..MaxClock : Tick(t)
  \/ \E timestamp \in 1..MaxTimestamp, elapsed \in {0, 1} : JbPush(timestamp, elapsed)
  \/ JbPop

SpecJitter == InitJitterSpec /\ [][NextJitter]_vars

\* C26: pop returns a packet only if the packet's age since reception is at
\* least targetDelayMs; otherwise it returns null and leaves the buffer
\* unchanged.
C26_PopRespectsTargetDelay ==
  jbLast.op = "pop" =>
    IF jbLast.ret.isNull
    THEN jb = jbLast.pre
    ELSE \E i \in 1..Len(jbPushed) :
           /\ jbPushed[i].data = jbLast.ret.bytes
           /\ jbLast.at - jbPushed[i].receivedAt >= jb.targetDelayMs

\* with a target delay above 0, a pop has returned a packet and the last pop
\* came too early for the packet that waits and returned null
C26_Witness ==
  /\ jb.targetDelayMs > 0
  /\ jbLast.op = "pop"
  /\ jbLast.ret.isNull
  /\ Len(jb.packets) > 0
  /\ Len(jbOut) > 0

\* C27: for any interleaving of push, with timestamps in any order, and pop,
\* the packets returned by successive non-null pops have non-decreasing
\* timestamps.
C27_PlaybackInOrder ==
  \A i \in 1..Len(jbOut) : \A j \in 1..Len(jbOut) :
    i < j => jbOut[i].timestamp <= jbOut[j].timestamp

\* C35: a packet pop returns was received less than maxDelayMs before the
\* pop, whatever the spacing of push and pop calls.
C35_NoStalePacketReleased ==
  (jbLast.op = "pop" /\ ~jbLast.ret.isNull)
    => jbLast.at - jbLast.pre.packets[1].receivedAt < jb.maxDelayMs

\* the number of the push that brought packet p
ArrivalOf(p) ==
  CHOOSE k \in 1..Len(jbPushed) : jbPushed[k].data = p.data

\* C36: after every push and pop the stored packets are in non-decreasing
\* timestamp order, and stored packets with equal timestamps are in the
\* order they arrived in.
C36_StoredInTimestampOrder ==
  \A i \in 1..Len(jb.packets) : \A j \in 1..Len(jb.packets) :
    i < j =>
      /\ jb.packets[i].timestamp <= jb.packets[j].timestamp
      /\ jb.packets[i].timestamp = jb.packets[j].timestamp
           => ArrivalOf(jb.packets[i]) < ArrivalOf(jb.packets[j])

\* three packets are stored, two of them with equal timestamps, and the
\* packet that arrived last has been sorted in front of them
C36_Witness ==
  /\ jbLast.op = "push"
  /\ Len(jb.packets) = 3
  /\ ArrivalOf(jb.packets[1]) = 3
  /\ jb.packets[2].timestamp = jb.packets[3].timestamp

(***************************************************************************)
(* SpecSliding: a SlidingAudioBuffer under push and getWindow              *)
(***************************************************************************)

MaxWindowMs == 2
MaxHopMs == 3
MaxSlidingBytes == 5

\* (windowMs, hopMs) given to the constructor, at 1000 samples a second
SlidingConfigs ==
  {SlidingAudioBufferNew(windowMs, hopMs, 1000) :
     windowMs \in 1..MaxWindowMs, hopMs \in 1..MaxHopMs}

InitSlidingSpec ==
  /\ InitBridge
  /\ InitMedia(200, "deep_male")
  /\ InitHandlers
  /\ InitTransformer
  /\ apiKey = TRUE
  /\ trCall = NoCall
  /\ InitClock
  /\ InitBufferAt(DefaultBuffer)
  /\ InitCodec
  /\ InitResampleCall
  /\ InitPcmCall
  /\ InitTracker
  /\ InitJitter
  /\ \E b \in SlidingConfigs : InitSlidingAt(b)

\* a chunk of length bytes; the k-th byte pushed overall has the value k
SbPush(length) ==
  /\ Len(sbPushed) + length <= MaxSlidingBytes
  /\ LET chunk == [i \in 1..length |-> Len(sbPushed) + i] IN
       /\ sb' = SlidingAudioBufferPush(sb, chunk)
       /\ sbPushed' = sbPushed \o chunk
  /\ sbLast' = [op |-> "push", pre |-> sb, ret |-> NullBuffer]
  /\ UNCHANGED sbWindows
  /\ UNCHANGED <<coreVars, rsCall, pcmCall, ltVars, jbVars>>

SbGetWindow ==
  /\ LET w == SlidingAudioBufferGetWindow(sb) IN
       /\ sb' = w.buffer
       /\ sbWindows' = IF w.result.isNull THEN sbWindows
                        ELSE Append(sbWindows, w.result.bytes)
       /\ sbLast' = [op |-> "getWindow", pre |-> sb, ret |-> w.result]
  /\ UNCHANGED sbPushed
  /\ UNCHANGED <<coreVars, rsCall, pcmCall, ltVars, jbVars>>

NextSliding ==
  \/ \E length \in 0..2 : SbPush(length)
  \/ SbGetWindow

SpecSliding == InitSlidingSpec /\ [][NextSliding]_vars

\* C28: for any windowMs and hopMs, getWindow returns null and changes
\* nothing while fewer than windowBytes are buffered; otherwise it returns
\* windowBytes bytes, and the k-th window returned (k = 0, 1, ...) is bytes
\* [k * hopBytes, k * hopBytes + windowBytes) of all the bytes pushed.
C28_WindowsAtHopOffsets ==
  /\ sbLast.op = "getWindow" =>
       IF Len(sbLast.pre.buffer) < sb.windowBytes
       THEN sbLast.ret.isNull /\ sb = sbLast.pre
       ELSE ~sbLast.ret.isNull /\ Len(sbLast.ret.bytes) = sb.windowBytes
  /\ \A k \in 0..(Len(sbWindows) - 1) :
       /\ k * sb.hopBytes + sb.windowBytes <= Len(sbPushed)
       /\ sbWindows[k + 1] =
            SubSeq(sbPushed, k * sb.hopBytes + 1, k * sb.hopBytes + sb.windowBytes)

====
